---- MODULE Spec2Model ----
(***************************************************************************)
(* The 2048 game of src/src/components/Game2048.tsx: the board engine      *)
(* (moveLeft / moveRight / moveUp / moveDown), the terminal-state detector *)
(* (isGameOver), the tile spawner (addRandomTile) and the session state    *)
(* driven by handleMove, the pause toggle, "Keep going" and handleRestart. *)
(*                                                                         *)
(* A board is a sequence of GRID_SIZE rows, each a sequence of GRID_SIZE   *)
(* numbers; JavaScript index i is TLA+ index i + 1.                        *)
(***************************************************************************)
EXTENDS Integers, Sequences, FiniteSets, TLC

GRID_SIZE == 4

Idx == 1..GRID_SIZE

Directions == {"left", "right", "up", "down"}

(***************************************************************************)
(* Helpers standing for the JavaScript array primitives the code uses.     *)
(***************************************************************************)
\* row.filter(val => val !== 0)
filterNonZero(row) == SelectSeq(row, LAMBDA v : v # 0)

\* The function f on 1..n as a sequence (what Array.map and the array
\* literals of the code produce).
asSeq(f) == SubSeq(f, 1, Len(f))

\* [...row].reverse()
reverse(row) == asSeq([k \in 1..(Len(row)) |-> row[Len(row) + 1 - k]])

RECURSIVE SumSeq(_)
SumSeq(s) == IF s = <<>> THEN 0 ELSE Head(s) + SumSeq(Tail(s))

\* Array(GRID_SIZE).fill(null).map(() => Array(GRID_SIZE).fill(0))
ZeroBoard == asSeq([i \in 1..GRID_SIZE |-> asSeq([j \in 1..GRID_SIZE |-> 0])])

\* Variant of mergeLoop: the doubled value is carried into cell j + 1, where
\* the next iteration can merge it a second time (chain merging).
RECURSIVE mergeLoopChain(_, _, _, _)
mergeLoopChain(row, j, inc, hit) ==
  IF j > Len(row) - 1
    THEN [row |-> row, inc |-> inc, hit |-> hit]
    ELSE IF row[j] = row[j + 1]
           THEN LET d == row[j] * 2
                IN  mergeLoopChain([row EXCEPT ![j] = 0, ![j + 1] = d],
                                   j + 1, inc + d, hit \/ d = 2048)
           ELSE mergeLoopChain(row, j + 1, inc, hit)

\* Variant of mergeLoop: the absorbed tile is not cleared (row[j + 1] = 0 lost).
RECURSIVE mergeLoopKeep(_, _, _, _)
mergeLoopKeep(row, j, inc, hit) ==
  IF j > Len(row) - 1
    THEN [row |-> row, inc |-> inc, hit |-> hit]
    ELSE IF row[j] = row[j + 1]
           THEN LET d == row[j] * 2
                IN  mergeLoopKeep([row EXCEPT ![j] = d],
                                  j + 2, inc + d, hit \/ d = 2048)
           ELSE mergeLoopKeep(row, j + 1, inc, hit)

\* Variant of mergeLoop: the score is taken before the value is doubled.
RECURSIVE mergeLoopOldScore(_, _, _, _)
mergeLoopOldScore(row, j, inc, hit) ==
  IF j > Len(row) - 1
    THEN [row |-> row, inc |-> inc, hit |-> hit]
    ELSE IF row[j] = row[j + 1]
           THEN LET d == row[j] * 2
                IN  mergeLoopOldScore([row EXCEPT ![j] = d, ![j + 1] = 0],
                                      j + 1, inc + row[j], hit \/ d = 2048)
           ELSE mergeLoopOldScore(row, j + 1, inc, hit)

\* Variant of mergeLoop: row[j] is not doubled, only the score is.
RECURSIVE mergeLoopNoDouble(_, _, _, _)
mergeLoopNoDouble(row, j, inc, hit) ==
  IF j > Len(row) - 1
    THEN [row |-> row, inc |-> inc, hit |-> hit]
    ELSE IF row[j] = row[j + 1]
           THEN LET d == row[j] * 2
                IN  mergeLoopNoDouble([row EXCEPT ![j + 1] = 0],
                                      j + 1, inc + d, hit \/ d = 2048)
           ELSE mergeLoopNoDouble(row, j + 1, inc, hit)

\* Variant of mergeLoop: the merged tile gains 2 instead of being doubled.
RECURSIVE mergeLoopAddTwo(_, _, _, _)
mergeLoopAddTwo(row, j, inc, hit) ==
  IF j > Len(row) - 1
    THEN [row |-> row, inc |-> inc, hit |-> hit]
    ELSE IF row[j] = row[j + 1]
           THEN LET d == row[j] + 2
                IN  mergeLoopAddTwo([row EXCEPT ![j] = d, ![j + 1] = 0],
                                    j + 1, inc + d, hit \/ d = 2048)
           ELSE mergeLoopAddTwo(row, j + 1, inc, hit)

\* Variant of mergeLoop: the 2048 test reads row[j] before it is doubled.
RECURSIVE mergeLoopTestBefore(_, _, _, _)
mergeLoopTestBefore(row, j, inc, hit) ==
  IF j > Len(row) - 1
    THEN [row |-> row, inc |-> inc, hit |-> hit]
    ELSE IF row[j] = row[j + 1]
           THEN LET d == row[j] * 2
                IN  mergeLoopTestBefore([row EXCEPT ![j] = d, ![j + 1] = 0],
                                        j + 1, inc + d, hit \/ row[j] = 2048)
           ELSE mergeLoopTestBefore(row, j + 1, inc, hit)

(***************************************************************************)
(* moveLeft, lines 85-94: the merge loop over the zero-free row.  j is the *)
(* 1-based loop index, inc the gain added to scoreIncrease so far, hit is  *)
(* TRUE once a merge has produced 2048.                                    *)
(***************************************************************************)
RECURSIVE mergeLoop(_, _, _, _)
mergeLoop(row, j, inc, hit) ==
  IF j > Len(row) - 1
    THEN [row |-> row, inc |-> inc, hit |-> hit]
    ELSE IF row[j] = row[j + 1]
           THEN LET d == row[j] * 2
                IN  mergeLoop([row EXCEPT ![j] = d, ![j + 1] = 0],
                              j + 1, inc + d, hit \/ d = 2048)
           ELSE mergeLoop(row, j + 1, inc, hit)

\* Variant of padRow: the second filter is forgotten, the gaps stay.
padRowNoCompact(row) ==
  row \o asSeq([k \in 1..(GRID_SIZE - Len(row)) |-> 0])

\* moveLeft, lines 96-99: drop the zeros the merges left, pad to GRID_SIZE.
padRow(row) ==
  LET filteredRow == filterNonZero(row)
  IN  filteredRow \o asSeq([k \in 1..(GRID_SIZE - Len(filteredRow)) |-> 0])

\* Variant of leftRow: the zeros are not dropped before the merge loop.
leftRowNoFilter(line) ==
  LET m == mergeLoop(line, 1, 0, FALSE)
  IN  [row |-> padRow(m.row), inc |-> m.inc, hit |-> m.hit]

\* moveLeft, lines 83-99 for one row: the merged record and the final row.
leftRow(line) ==
  LET m == mergeLoop(filterNonZero(line), 1, 0, FALSE)
  IN  [row |-> padRow(m.row), inc |-> m.inc, hit |-> m.hit]

\* Variant of moveLeft: moved starts as true.
moveLeftMovedAlways(b, w) ==
  LET rows == asSeq([i \in 1..GRID_SIZE |-> leftRow(b[i])])
  IN  [newBoard      |-> asSeq([i \in 1..GRID_SIZE |-> asSeq([j \in 1..GRID_SIZE |-> rows[i].row[j]])]),
       scoreIncrease |-> SumSeq(asSeq([i \in 1..GRID_SIZE |-> rows[i].inc])),
       moved         |-> TRUE,
       setWon        |-> (\E i \in Idx : rows[i].hit) /\ ~w]

\* Variant of moveLeft: moved is raised by merges only, a pure slide is missed.
moveLeftMergedOnly(b, w) ==
  LET rows == asSeq([i \in 1..GRID_SIZE |-> leftRow(b[i])])
  IN  [newBoard      |-> asSeq([i \in 1..GRID_SIZE |-> asSeq([j \in 1..GRID_SIZE |-> rows[i].row[j]])]),
       scoreIncrease |-> SumSeq(asSeq([i \in 1..GRID_SIZE |-> rows[i].inc])),
       moved         |-> \E i \in Idx : rows[i].inc > 0,
       setWon        |-> (\E i \in Idx : rows[i].hit) /\ ~w]

(***************************************************************************)
(* moveLeft(board): w is the value of the session's won flag the function  *)
(* reads at line 90; setWon tells whether it calls setWon(true).           *)
(***************************************************************************)
moveLeft(b, w) ==
  LET rows == asSeq([i \in 1..GRID_SIZE |-> leftRow(b[i])])
  IN  [newBoard      |-> asSeq([i \in 1..GRID_SIZE |-> asSeq([j \in 1..GRID_SIZE |-> rows[i].row[j]])]),
       scoreIncrease |-> SumSeq(asSeq([i \in 1..GRID_SIZE |-> rows[i].inc])),
       moved         |-> \E i \in Idx : \E j \in Idx : b[i][j] # rows[i].row[j],
       setWon        |-> (\E i \in Idx : rows[i].hit) /\ ~w]

\* board[0].map((_, colIndex) => board.map(row => row[colIndex]))
transpose(b) ==
  asSeq([colIndex \in 1..(Len(b[1])) |-> asSeq([r \in 1..(Len(b)) |-> b[r][colIndex]])])

\* Variant of moveRight: the rows of the result are not reversed back.
moveRightNoReverseBack(b, w) ==
  LET reversedBoard == asSeq([i \in 1..(Len(b)) |-> reverse(b[i])])
  IN  moveLeft(reversedBoard, w)

moveRight(b, w) ==
  LET reversedBoard == asSeq([i \in 1..(Len(b)) |-> reverse(b[i])])
      r == moveLeft(reversedBoard, w)
  IN  [r EXCEPT !.newBoard = asSeq([i \in 1..(Len(r.newBoard)) |-> reverse(r.newBoard[i])])]

moveUp(b, w) ==
  LET r == moveLeft(transpose(b), w)
  IN  [r EXCEPT !.newBoard = transpose(r.newBoard)]

moveDown(b, w) ==
  LET r == moveRight(transpose(b), w)
  IN  [r EXCEPT !.newBoard = transpose(r.newBoard)]

\* handleMove, lines 161-175: the switch on the direction.
applyMove(direction, b, w) ==
  CASE direction = "left"  -> moveLeft(b, w)
    [] direction = "right" -> moveRight(b, w)
    [] direction = "up"    -> moveUp(b, w)
    [] direction = "down"  -> moveDown(b, w)

\* Variant of isGameOver: a full board is terminal, neighbours are not compared.
isGameOverWhenFull(b) ==
  ~ \E i \in Idx : \E j \in Idx : b[i][j] = 0

\* Variant of isGameOver: the right-neighbour test stops one column early.
isGameOverShortRow(b) ==
  IF \E i \in Idx : \E j \in Idx : b[i][j] = 0
    THEN FALSE
    ELSE ~ \E i \in Idx : \E j \in Idx :
             \/ (j < GRID_SIZE - 1 /\ b[i][j] = b[i][j + 1])
             \/ (i < GRID_SIZE /\ b[i][j] = b[i + 1][j])

\* Variant of isGameOver: the down-neighbour test is missing.
isGameOverRowsOnly(b) ==
  IF \E i \in Idx : \E j \in Idx : b[i][j] = 0
    THEN FALSE
    ELSE ~ \E i \in Idx : \E j \in Idx :
             (j < GRID_SIZE /\ b[i][j] = b[i][j + 1])

isGameOver(b) ==
  IF \E i \in Idx : \E j \in Idx : b[i][j] = 0
    THEN FALSE
    ELSE ~ \E i \in Idx : \E j \in Idx :
             \/ (j < GRID_SIZE /\ b[i][j] = b[i][j + 1])
             \/ (i < GRID_SIZE /\ b[i][j] = b[i + 1][j])

\* Variant of addRandomTile: the tile is put on any cell, empty or not.
addRandomTileAnyCell(b) ==
  {[b EXCEPT ![i][j] = v] : i \in Idx, j \in Idx, v \in {2, 4}}

(***************************************************************************)
(* addRandomTile(board), lines 60-75.  emptyCells lists the empty cells in *)
(* row-major order; Math.random() picks any index of it and 2 or 4.  The   *)
(* operator is the set of boards the call can leave behind; a board with   *)
(* no empty cell is left as it is (line 70).                               *)
(***************************************************************************)
emptyCells(b) ==
  LET cellAt(k) == <<((k - 1) \div GRID_SIZE) + 1, ((k - 1) % GRID_SIZE) + 1>>
      all == asSeq([k \in 1..(GRID_SIZE * GRID_SIZE) |-> cellAt(k)])
  IN  SelectSeq(all, LAMBDA c : b[c[1]][c[2]] = 0)

addRandomTile(b) ==
  LET cells == emptyCells(b)
  IN  IF Len(cells) > 0
        THEN {[b EXCEPT ![cells[randomIndex][1]][cells[randomIndex][2]] = v] :
                randomIndex \in 1..Len(cells), v \in {2, 4}}
        ELSE {b}

\* Variant of initializeBoard: addRandomTile is called once.
initializeBoardOnce == addRandomTile(ZeroBoard)

\* initializeBoard(), lines 53-58: every board it can return.
initializeBoard ==
  UNION {addRandomTile(b1) : b1 \in addRandomTile(ZeroBoard)}

(***************************************************************************)
(* The same functions with the arrays as objects.  A heap is a sequence of *)
(* arrays, the address of an array is its index; a row is an array of      *)
(* numbers, a board an array of row addresses.  Each operator takes the    *)
(* heap h and the address b of a board and yields the heap it leaves and,  *)
(* for the move functions, the address ref of the board it returns.        *)
(***************************************************************************)
\* The grid held by the board at address b.
deref(h, b) == asSeq([i \in 1..(Len(h[b])) |-> h[h[b][i]]])

\* A new board whose rows are new arrays with the contents rows.
newArrays(h, rows) ==
  LET h1 == h \o rows
  IN  [heap |-> Append(h1, asSeq([k \in 1..(Len(rows)) |-> Len(h) + k])),
       ref  |-> Len(h1) + 1]

\* Variant of copyRows: only the outer array is copied, the rows are shared.
copyRowsShallow(h, b) ==
  [heap |-> Append(h, h[b]), ref |-> Len(h) + 1]

\* board.map(row => [...row]) (line 78).
copyRows(h, b) == newArrays(h, deref(h, b))

\* moveLeft, lines 82-107, rows i..GRID_SIZE: the loop of lines 101-106
\* writes every cell of newBoard[i], leaving it equal to filteredRow.
RECURSIVE writeRows(_, _, _)
writeRows(h, newBoard, i) ==
  IF i > GRID_SIZE THEN h
  ELSE LET filteredRow == leftRow(h[h[newBoard][i]]).row
       IN  writeRows([h EXCEPT ![h[newBoard][i]] = filteredRow], newBoard, i + 1)

moveLeftAt(h, b) ==
  LET c == copyRows(h, b)
  IN  [heap |-> writeRows(c.heap, c.ref, 1), ref |-> c.ref]

\* board.map(row => [...row].reverse()) (lines 113 and 115).
reverseRowsAt(h, b) ==
  newArrays(h, asSeq([i \in 1..(Len(h[b])) |-> reverse(h[h[b][i]])]))

transposeAt(h, b) == newArrays(h, transpose(deref(h, b)))

moveRightAt(h, b) ==
  LET reversedBoard == reverseRowsAt(h, b)
      r == moveLeftAt(reversedBoard.heap, reversedBoard.ref)
  IN  reverseRowsAt(r.heap, r.ref)

moveUpAt(h, b) ==
  LET transposed == transposeAt(h, b)
      r == moveLeftAt(transposed.heap, transposed.ref)
  IN  transposeAt(r.heap, r.ref)

moveDownAt(h, b) ==
  LET transposed == transposeAt(h, b)
      r == moveRightAt(transposed.heap, transposed.ref)
  IN  transposeAt(r.heap, r.ref)

applyMoveAt(direction, h, b) ==
  CASE direction = "left"  -> moveLeftAt(h, b)
    [] direction = "right" -> moveRightAt(h, b)
    [] direction = "up"    -> moveUpAt(h, b)
    [] direction = "down"  -> moveDownAt(h, b)

\* addRandomTile(board), line 73: the write board[row][col] = 2 or 4 goes
\* into the row array of the board passed.  The heaps the call can leave.
addRandomTileAt(h, b) ==
  LET cells == emptyCells(deref(h, b))
  IN  IF Len(cells) > 0
        THEN {[h EXCEPT ![h[b][cells[randomIndex][1]]][cells[randomIndex][2]] = v] :
                randomIndex \in 1..Len(cells), v \in {2, 4}}
        ELSE {h}

(***************************************************************************)
(* Bounded families of input grids for the engine.                         *)
(*   SparseGrids: at most MaxTiles tiles of value 2 or 4, anywhere.        *)
(*   NearTerminal: a full checkerboard of 2 and 4 (a terminal grid) with   *)
(*   at most MaxEdits cells overwritten by a value of EditValues.          *)
(* The grid with no tile is not an input: initializeBoard places two tiles *)
(* (lines 53-58), a move removes tiles only by merging two into one, and   *)
(* isGameOver is called at line 188 alone, on the board just spawned on.   *)
(***************************************************************************)
MaxTiles == 2

MaxEdits == 2

EditValues == {0, 2, 4, 8}

RECURSIVE Spawned(_)
Spawned(k) ==
  IF k = 0 THEN {ZeroBoard}
  ELSE LET prev == Spawned(k - 1)
       IN  prev \cup UNION {addRandomTile(g) : g \in prev}

SparseGrids == Spawned(MaxTiles)

Checkerboard ==
  asSeq([i \in 1..GRID_SIZE |-> asSeq([j \in 1..GRID_SIZE |-> IF (i + j) % 2 = 0 THEN 2 ELSE 4])])

RECURSIVE Edited(_)
Edited(k) ==
  IF k = 0 THEN {Checkerboard}
  ELSE LET prev == Edited(k - 1)
       IN  prev \cup {[g EXCEPT ![i][j] = v] :
                        g \in prev, i \in Idx, j \in Idx, v \in EditValues}

NearTerminal == Edited(MaxEdits)

EngineGrids == (SparseGrids \cup NearTerminal) \ {ZeroBoard}

(***************************************************************************)
(* JavaScript values of the best score.  A text is a sequence of           *)
(* one-character strings.  The localStorage item is a record: present      *)
(* tells whether getItem returns a text or null.  A number is a sequence:  *)
(*   << >>              NaN                                                *)
(*   <<n>>              the integer n, |n| < 2^IntBits                     *)
(*   <<sign, digits>>   a double of magnitude 2^IntBits or more: sign is   *)
(*                      1 or -1, digits the decimal digits of its value,   *)
(*                      most significant first                             *)
(*   <<sign, <<"Infinity">> >>   Infinity and -Infinity                    *)
(* -0 is modelled as 0: no operation of the model tells the two apart.     *)
(***************************************************************************)
Num(n) == <<n>>

NaN == << >>

Big(sign, digits) == <<sign, digits>>

Infinite(sign) == <<sign, <<"Infinity">> >>

\* The integers kept as <<n>> are those of fewer than IntBits + 1 bits.
IntBits == 30

\* A double has a significand of 53 bits and is finite below 2^1024.
MantissaBits == 53

MaxBits == 1024

\* a < b for two sequences of digits of the same length.
digitsLess(a, b) ==
  \E i \in 1..Len(a) : a[i] < b[i] /\ \A j \in 1..(i - 1) : a[j] = b[j]

\* a < b for the magnitudes of two numbers of the third or fourth form.
magnitudeLess(a, b) ==
  IF a = Infinite(1)[2] THEN FALSE
  ELSE IF b = Infinite(1)[2] THEN TRUE
  ELSE Len(a) < Len(b) \/ (Len(a) = Len(b) /\ digitsLess(a, b))

\* a < b for two numbers that are not NaN.
numLess(a, b) ==
  IF Len(a) = 1
    THEN IF Len(b) = 1 THEN a[1] < b[1] ELSE b[1] > 0
    ELSE IF Len(b) = 1 THEN a[1] < 0
         ELSE IF a[1] # b[1] THEN a[1] < b[1]
              ELSE IF a[1] > 0 THEN magnitudeLess(a[2], b[2])
                               ELSE magnitudeLess(b[2], a[2])

\* Variant of jsGreater: the operands are swapped.
jsGreaterSwapped(a, b) == a # NaN /\ b # NaN /\ numLess(a, b)

\* newScore > highScore (line 183): false as soon as an operand is NaN.
jsGreater(a, b) == a # NaN /\ b # NaN /\ numLess(b, a)

NoItem == [present |-> FALSE, text |-> << >>]

Item(t) == [present |-> TRUE, text |-> t]

Digits == <<"0", "1", "2", "3", "4", "5", "6", "7", "8", "9">>

\* The white-space characters parseInt strips that a string of the model can
\* hold: space, tab, line feed, carriage return, form feed, vertical tab
\* (U+000B), no-break space (U+00A0), ogham space mark (U+1680) and the byte
\* order mark (U+FEFF).  The other ones (U+2000 to U+200A, U+2028, U+2029,
\* U+202F, U+205F, U+3000) cannot be written in a string of the model.
WhiteSpace == {" ", "\t", "\n", "\r", "\f", "", " ", " ", "﻿"}

\* The text t from its first character that is not white space.
skipSpaces(t) ==
  LET rest == {i \in 1..Len(t) : t[i] \notin WhiteSpace}
  IN  IF rest = {} THEN << >>
      ELSE SubSeq(t, CHOOSE i \in rest : \A j \in rest : i <= j, Len(t))

LowerDigits == Digits \o <<"a", "b", "c", "d", "e", "f">>

UpperDigits == Digits \o <<"A", "B", "C", "D", "E", "F">>

\* The value of character c as a digit; 16 when it is a digit of no radix
\* up to 16.
digitOf(c) ==
  IF \E k \in 1..16 : LowerDigits[k] = c
    THEN (CHOOSE k \in 1..16 : LowerDigits[k] = c) - 1
    ELSE IF \E k \in 1..16 : UpperDigits[k] = c
           THEN (CHOOSE k \in 1..16 : UpperDigits[k] = c) - 1
           ELSE 16

\* The values of the longest prefix of digits of the radix in t.
readDigits(t, radix) ==
  LET stop == {i \in 1..Len(t) : digitOf(t[i]) >= radix}
      n    == IF stop = {} THEN Len(t)
              ELSE (CHOOSE i \in stop : \A j \in stop : i <= j) - 1
  IN  asSeq([i \in 1..n |-> digitOf(t[i])])

\* The digits or bits d from the first that is not 0.
stripZeros(d) ==
  LET rest == {i \in 1..Len(d) : d[i] # 0}
  IN  IF rest = {} THEN << >>
      ELSE SubSeq(d, CHOOSE i \in rest : \A j \in rest : i <= j, Len(d))

\* Half of the number of decimal digits d, rounded down, in as many digits.
halve(d) ==
  asSeq([i \in 1..Len(d) |-> ((IF i > 1 THEN d[i - 1] % 2 ELSE 0) * 10 + d[i]) \div 2])

\* Twice the number of decimal digits d, which begins with a 0.
twice(d) ==
  asSeq([i \in 1..Len(d) |->
           (2 * d[i] + (IF i < Len(d) /\ d[i + 1] >= 5 THEN 1 ELSE 0)) % 10])

\* n times: the lowest bit of s.d, unless s.d is 0, goes in front of s.bits
\* and s.d is halved.  The steps are split in two halves to keep the
\* recursion shallow; the test on mid has the first half evaluated before the
\* second starts.
RECURSIVE halveSteps(_, _)
halveSteps(n, s) ==
  IF n = 0 THEN s
  ELSE IF n = 1
    THEN [d    |-> halve(s.d),
          bits |-> IF \A i \in 1..Len(s.d) : s.d[i] = 0
                     THEN s.bits
                     ELSE <<s.d[Len(s.d)] % 2>> \o s.bits]
    ELSE LET mid == halveSteps(n \div 2, s)
         IN  IF Len(mid.d) = Len(s.d) THEN halveSteps(n - n \div 2, mid) ELSE s

\* The bits, most significant first, of the number of decimal digits d: a
\* digit makes fewer than four bits.
decimalToBits(d) == halveSteps(4 * Len(d), [d |-> d, bits |-> << >>]).bits

\* The bits of the number of hexadecimal digits d, four for a digit.
hexToBits(d) ==
  asSeq([i \in 1..(4 * Len(d)) |-> (d[(i + 3) \div 4] \div (2 ^ (3 - ((i - 1) % 4)))) % 2])

\* The bits of the double nearest to the integer of bits b, ties to the even
\* significand.
roundToDouble(b) ==
  IF Len(b) <= MantissaBits
    THEN b
    ELSE LET top   == SubSeq(b, 1, MantissaBits)
             half  == b[MantissaBits + 1] = 1
             rest  == \E i \in (MantissaBits + 2)..Len(b) : b[i] = 1
             up    == half /\ (rest \/ top[MantissaBits] = 1)
             zeros == asSeq([i \in 1..(Len(b) - MantissaBits) |-> 0])
             q     == IF ~up
                        THEN top
                        ELSE IF \A i \in 1..MantissaBits : top[i] = 1
                               THEN <<1>> \o asSeq([i \in 1..MantissaBits |-> 0])
                               ELSE asSeq([i \in 1..MantissaBits |->
                                             IF \A j \in (i + 1)..MantissaBits : top[j] = 1
                                               THEN 1 - top[i]
                                               ELSE top[i]])
         IN  q \o zeros

\* The integer of at most IntBits bits b, after acc.
RECURSIVE bitsToInt(_, _)
bitsToInt(b, acc) == IF b = << >> THEN acc ELSE bitsToInt(Tail(b), 2 * acc + b[1])

\* The decimal digits d after n steps, one for each bit of b from the i-th
\* on: d is doubled and the bit added.  The steps are split as in halveSteps.
RECURSIVE bitsToDecimal(_, _, _, _)
bitsToDecimal(b, i, n, d) ==
  IF n = 0 THEN d
  ELSE IF n = 1
    THEN [twice(d) EXCEPT ![Len(d)] = @ + b[i]]
    ELSE LET mid == bitsToDecimal(b, i, n \div 2, d)
         IN  IF Len(mid) = Len(d) THEN bitsToDecimal(b, i + n \div 2, n - n \div 2, mid) ELSE d

\* The Number value of the integer of bits b (no leading zero) with the sign.
doubleOf(sign, b) ==
  LET r == roundToDouble(b)
  IN  IF Len(r) > MaxBits THEN Infinite(sign)
      ELSE IF Len(r) <= IntBits THEN Num(sign * bitsToInt(r, 0))
      ELSE Big(sign, stripZeros(bitsToDecimal(r, 1, Len(r), asSeq([i \in 1..(Len(r) \div 3 + 1) |-> 0]))))

\* parseInt(text) with no radix argument: leading white space, an optional
\* sign, an optional 0x or 0X that makes the radix 16, then the leading
\* digits of the radix; NaN when there is none, else the double nearest to
\* the integer read.
parseInt(t) ==
  LET s    == skipSpaces(t)
      neg  == s # << >> /\ Head(s) = "-"
      body == IF s # << >> /\ Head(s) \in {"-", "+"} THEN Tail(s) ELSE s
      hex  == Len(body) >= 2 /\ body[1] = "0" /\ body[2] \in {"x", "X"}
      read == IF hex THEN readDigits(Tail(Tail(body)), 16) ELSE readDigits(body, 10)
      bits == IF hex THEN stripZeros(hexToBits(read)) ELSE decimalToBits(read)
  IN  IF read # << >> THEN doubleOf(IF neg THEN 0 - 1 ELSE 1, bits) ELSE NaN

\* Variant of toString: the digits come out lowest first.
RECURSIVE toStringLowFirst(_)
toStringLowFirst(n) ==
  IF n < 10 THEN <<Digits[n + 1]>>
  ELSE <<Digits[(n % 10) + 1]>> \o toStringLowFirst(n \div 10)

\* newScore.toString() for a non-negative integer.
RECURSIVE toString(_)
toString(n) ==
  IF n < 10 THEN <<Digits[n + 1]>>
  ELSE toString(n \div 10) \o <<Digits[(n % 10) + 1]>>

\* localStorage.getItem('2048HighScore') || '0' (line 31).
getItemOrZero(item) ==
  IF item.present /\ item.text # << >> THEN item.text ELSE <<"0">>

(***************************************************************************)
(* State.                                                                  *)
(*   Session (React state of the component, lines 28-36, and the           *)
(*   localStorage item '2048HighScore'):                                   *)
(*     board, score, highScore, stored, gameOver, won, isPlaying           *)
(*   bound: the values of board, score, highScore, gameOver, isPlaying and *)
(*     won captured by the handleMove that the key and touch listeners     *)
(*     call (the closure made by useCallback, line 158).                   *)
(*   last: the last input handled and what its move returned.              *)
(*   inbox: the input events delivered to the page and not handled yet, in *)
(*     delivery order; loop: the render that the last handler left to do.  *)
(*   left: accepted moves still explored from this state (model bound).    *)
(*   Engine harness (calls of the pure functions on an input grid):        *)
(*     grid, phase, dir, res, again, over                                  *)
(*   mem: the heap of the calls made on arrays, with the addresses of the  *)
(*     board passed (input) and of the board returned (output).            *)
(***************************************************************************)
(***************************************************************************)
(* Touch input of the 2048 board (Game2048.tsx:224-257).  A touch list is  *)
(* a sequence of points <<clientX, clientY>>; the handlers read its first  *)
(* entry only.                                                             *)
(***************************************************************************)
SwipeThreshold == 30

MaxDelta == 31

\* touchStartRef.current before the first touchstart (line 225).
NoTouch == << >>

abs(x) == IF x < 0 THEN 0 - x ELSE x

\* handleTouchStart (lines 227-231): the new value of touchStartRef.current.
handleTouchStart(ref, touches) == IF Len(touches) > 0 THEN touches[1] ELSE ref

\* handleTouchEnd (lines 233-257): the directions handleMove is called with,
\* in call order.
handleTouchEnd(ref, changedTouches) ==
  IF ref = NoTouch \/ Len(changedTouches) = 0
    THEN << >>
    ELSE LET touchEnd  == changedTouches[1]
             deltaX    == touchEnd[1] - ref[1]
             deltaY    == touchEnd[2] - ref[2]
             absDeltaX == abs(deltaX)
             absDeltaY == abs(deltaY)
         IN  IF absDeltaX < SwipeThreshold /\ absDeltaY < SwipeThreshold
               THEN << >>
               ELSE IF absDeltaX > absDeltaY
                      THEN IF deltaX > 0 THEN <<"right">> ELSE <<"left">>
                      ELSE IF deltaY > 0 THEN <<"down">> ELSE <<"up">>

\* swipe: the last touch event handled; touches is the list the event
\* carried and start the point where the finger went down (the first touch
\* of the last touchstart); for a touchend, ref is touchStartRef.current as
\* the handler found it and calls what it passed to handleMove.
NoSwipe ==
  [op |-> "none", ref |-> NoTouch, start |-> NoTouch, touches |-> << >>,
   calls |-> << >>]

(***************************************************************************)
(* The Snake game (unnamed/part_001).  A position is a record [x, y]; the  *)
(* snake is a sequence of positions, head first.                           *)
(***************************************************************************)
GRID_ROWS == 25

GRID_COLS == 35

Pos(x, y) == [x |-> x, y |-> y]

\* The cell of INITIAL_SNAKE and of resetGame (lines 22, 68).
Centre == Pos(GRID_COLS \div 2, GRID_ROWS \div 2)

INITIAL_SNAKE == <<Centre>>

INITIAL_DIRECTION == "RIGHT"

SnakeDirections == {"UP", "DOWN", "LEFT", "RIGHT"}

\* snake.some((s) => s.x === x && s.y === y)
onSnake(snake, p) == \E i \in 1..Len(snake) : snake[i] = p

\* generateFood (lines 51-65) on the snake its closure holds: the positions
\* it can return, one for each value of Math.random().
generateFood(snake) ==
  LET cells == {p \in {Pos(x, y) : x \in 0..(GRID_COLS - 1), y \in 0..(GRID_ROWS - 1)} :
                  ~onSnake(snake, p)}
  IN  IF cells = {} THEN {Centre} ELSE cells

\* The switch of lines 86-99.
advance(head, d) ==
  CASE d = "UP"    -> Pos(head.x, head.y - 1)
    [] d = "DOWN"  -> Pos(head.x, head.y + 1)
    [] d = "LEFT"  -> Pos(head.x - 1, head.y)
    [] d = "RIGHT" -> Pos(head.x + 1, head.y)

opposite(d) ==
  CASE d = "UP"    -> "DOWN"
    [] d = "DOWN"  -> "UP"
    [] d = "LEFT"  -> "RIGHT"
    [] d = "RIGHT" -> "LEFT"

\* The state of the component after construction (lines 27-36), with no
\* stored best score.
SnakeStart ==
  [snake |-> INITIAL_SNAKE, food |-> Pos(15, 15),
   direction |-> INITIAL_DIRECTION, nextDirection |-> INITIAL_DIRECTION,
   isPlaying |-> TRUE, score |-> 0, length |-> 1,
   highScore |-> parseInt(getItemOrZero(NoItem)), stored |-> NoItem,
   gameOver |-> FALSE, isMobile |-> FALSE]

\* The state hooks of the component (lines 27-36); those of snake and food
\* hold a reference, the others a primitive value.
SnakeHooks ==
  {"snake", "food", "direction", "nextDirection", "isPlaying", "score",
   "length", "highScore", "gameOver", "isMobile"}

RefHooks == {"snake", "food"}

\* React state: the state without the stored item.
hooks(g) == [g EXCEPT !.stored = NoItem]

\* A call of a state setter.  setX(v) is of kind "value" and carries v;
\* setIsPlaying((prev) => !prev) is of kind "toggle"; setSnake(updater) of
\* moveSnake is of kind "tick".
setState(hook, v) == [hook |-> hook, kind |-> "value", v |-> v]

\* setIsPlaying((prev) => !prev) (lines 174, 423, 459).
togglePlaying == [hook |-> "isPlaying", kind |-> "toggle", v |-> FALSE]

\* setSnake((prevSnake) => ...) of moveSnake (line 80).
setSnakeUpdater == [hook |-> "snake", kind |-> "tick", v |-> INITIAL_SNAKE]

\* The functions below take the state values c their closure holds, those
\* of the render that created them, and return the setter calls they make,
\* in order.

\* The head the updater of setSnake (lines 80-136) computes from its
\* argument prevSnake.
newHead(c, prevSnake) == advance(prevSnake[1], c.nextDirection)

\* The updater returns at line 81.
idles(c) == ~c.isPlaying \/ c.gameOver

\* Lines 104 and 111: the head leaves the grid or enters the snake.
collides(c, prevSnake) ==
  LET head == newHead(c, prevSnake)
  IN  \/ head.x < 0 \/ head.x >= GRID_COLS
      \/ head.y < 0 \/ head.y >= GRID_ROWS
      \/ onSnake(prevSnake, head)

\* Line 120 is reached and holds.
eats(c, prevSnake) ==
  ~idles(c) /\ ~collides(c, prevSnake) /\ newHead(c, prevSnake) = c.food

\* The snake the updater returns.
nextSnake(c, prevSnake) ==
  IF idles(c) \/ collides(c, prevSnake) THEN prevSnake
  ELSE IF eats(c, prevSnake) THEN <<newHead(c, prevSnake)>> \o prevSnake
  ELSE <<newHead(c, prevSnake)>> \o SubSeq(prevSnake, 1, Len(prevSnake) - 1)

\* The updater of moveSnake (lines 80-137) run on prevSnake, f being the
\* position its call of generateFood returns: the snake it returns, whether
\* that is prevSnake itself (kept), the setter calls it makes and the text
\* it writes to localStorage, if any (item).
moveSnake(c, prevSnake, f) ==
  LET newScore == c.score + 10
      best     == jsGreater(Num(newScore), c.highScore)
  IN  [snake |-> nextSnake(c, prevSnake),
       kept  |-> idles(c) \/ collides(c, prevSnake),
       ate   |-> eats(c, prevSnake),
       calls |->
         IF idles(c) THEN << >>
         ELSE <<setState("direction", c.nextDirection)>> \o
              (IF collides(c, prevSnake)
                 THEN <<setState("gameOver", TRUE), setState("isPlaying", FALSE)>>
                 ELSE IF eats(c, prevSnake)
                        THEN <<setState("score", newScore),
                               setState("length", c.length + 1)>> \o
                             (IF best THEN <<setState("highScore", Num(newScore))>>
                                      ELSE << >>) \o
                             <<setState("food", f)>>
                        ELSE << >>),
       item  |-> IF eats(c, prevSnake) /\ best THEN <<toString(newScore)>>
                                                ELSE << >>]

\* localStorage after the updater has run.
setItem(item, old) == IF item = << >> THEN old ELSE Item(item[1])

\* resetGame (lines 67-77), for the food f that its call of generateFood
\* returned.
resetGame(f) ==
  <<setState("snake", <<Centre>>),
    setState("food", f),
    setState("direction", INITIAL_DIRECTION),
    setState("nextDirection", INITIAL_DIRECTION),
    setState("isPlaying", TRUE),
    setState("score", 0),
    setState("length", 1),
    setState("gameOver", FALSE)>>

\* handleKey (lines 149-171) for the keys of direction d, in the listener
\* that closed over c.
handleKey(c, d) ==
  IF c.direction # opposite(d) THEN <<setState("nextDirection", d)>> ELSE << >>

\* handleKey for the space key (lines 172-175).
handleKeySpace(c) == IF c.gameOver THEN << >> ELSE <<togglePlaying>>

\* The onClick of the pause button (lines 457-461).
handlePauseClick(c) == IF ~c.gameOver THEN <<togglePlaying>> ELSE << >>

\* handleDirectionChange (lines 236-247).
handleDirectionChange(c, d) ==
  IF c.gameOver \/ ~c.isPlaying THEN << >>
  ELSE IF c.direction # opposite(d) THEN <<setState("nextDirection", d)>>
  ELSE << >>

\* checkMobile (lines 42-44) on a window for which the test of line 43
\* gives m.
checkMobile(m) == <<setState("isMobile", m)>>

(***************************************************************************)
(* The state hooks as React 18 (createRoot) keeps them.  Every setter call *)
(* is an update with a lane: "S" (SyncLane) in a keydown, click or resize, *)
(* "D" (DefaultLane) in a timer callback or in a passive effect.  A render *)
(* of a lane applies, hook by hook, the updates of that lane and those     *)
(* rebased on an earlier render (lane "N"), and leaves the others in the   *)
(* queue.  The component has two fibers, the current one and its           *)
(* alternate; cur and alt are the lanes marked on them.                    *)
(***************************************************************************)
\* The update a setter call leaves in the queue of its hook.
enqueue(call, lane) == [lane |-> lane, kind |-> call.kind, v |-> call.v]

\* The update of an updater that returned its argument.
keepSnake == [lane |-> "D", kind |-> "keep", v |-> INITIAL_SNAKE]

\* basicStateReducer: the state after update u on state s.
applyAction(u, s) ==
  CASE u.kind = "value"  -> u.v
    [] u.kind = "toggle" -> ~s
    [] OTHER             -> s

\* No lane is marked on either fiber: dispatchSetState computes the next
\* state at once.
isClean(fib) == fib.cur = {} /\ fib.alt = {}

markLane(fib, lane) ==
  [fib EXCEPT !.cur = @ \cup {lane}, !.alt = @ \cup {lane}]

push(fib, hook, update) == [fib EXCEPT !.queue[hook] = Append(@, update)]

\* dispatchSetState for a call made outside a render, g being the state of
\* the last render.  On clean fibers the next state is computed at once;
\* when it is the state of the last render (Object.is) the update stays in
\* the queue and no lane is marked, so no render is scheduled for it.
dispatchSetState(fib, g, call, lane) ==
  IF isClean(fib)
    THEN LET eagerState == applyAction(call, g[call.hook])
             update     == [lane |-> lane, kind |-> "value", v |-> eagerState]
         IN  IF call.hook \notin RefHooks /\ eagerState = g[call.hook]
               THEN push(fib, call.hook, update)
               ELSE markLane(push(fib, call.hook, update), lane)
    ELSE markLane(push(fib, call.hook, enqueue(call, lane)), lane)

\* The calls of a handler, in order.
RECURSIVE dispatchAll(_, _, _, _)
dispatchAll(fib, g, calls, lane) ==
  IF Len(calls) = 0 THEN fib
  ELSE dispatchAll(dispatchSetState(fib, g, Head(calls), lane), g, Tail(calls), lane)

\* setSnake(updater) on clean fibers: the updater runs in the timer
\* callback, on the snake of the last render; the setters it calls are
\* dispatched one by one, and the snake it returns after them.
dispatchEager(fib, g, out) ==
  LET sent == dispatchAll(fib, g, out.calls, "D")
  IN  IF out.kept
        THEN [push(sent, "snake", keepSnake) EXCEPT !.ate = out.ate]
        ELSE [markLane(push(sent, "snake", enqueue(setState("snake", out.snake), "D")), "D")
                EXCEPT !.ate = out.ate]

\* setSnake(updater) on fibers that are not clean: the updater waits in the
\* queue with the values c it closed over.
dispatchLazy(fib, c) ==
  [markLane(push(fib, "snake", enqueue(setSnakeUpdater, "D")), "D")
     EXCEPT !.closure = hooks(c)]

\* Update u is applied by a render of lane lane.
inLanes(u, lane) == u.lane = lane \/ u.lane = "N"

\* The state of a hook after the updates us that the render applies, from
\* state s.
RECURSIVE reduce(_, _, _)
reduce(us, s, lane) ==
  IF Len(us) = 0 THEN s
  ELSE reduce(Tail(us),
              IF inLanes(Head(us), lane) THEN applyAction(Head(us), s) ELSE s,
              lane)

\* The first update the render skips, Len(us) + 1 if it skips none.
firstSkipped(us, lane) ==
  LET skipped == {i \in 1..Len(us) : ~inLanes(us[i], lane)}
  IN  IF skipped = {} THEN Len(us) + 1
      ELSE CHOOSE i \in skipped : \A j \in skipped : i <= j

\* The updates a render leaves in the queue of a hook: from the first one
\* skipped on, those it applied being rebased.
rebase(us, lane) ==
  LET k == firstSkipped(us, lane)
  IN  asSeq([i \in 1..(Len(us) + 1 - k) |->
               IF inLanes(us[k + i - 1], lane)
                 THEN [us[k + i - 1] EXCEPT !.lane = "N"]
                 ELSE us[k + i - 1]])

\* The state the updates before the first skipped one give: the state the
\* next render starts from.
baseState(us, s, lane) == reduce(SubSeq(us, 1, firstSkipped(us, lane) - 1), s, lane)

\* The hook holds another reference after the render: the last update
\* applied that set one is of the lane rendered, not a rebased one.
fresh(us, lane) ==
  LET set == {i \in 1..Len(us) : inLanes(us[i], lane) /\ us[i].kind # "keep"}
  IN  /\ set # {}
      /\ \E i \in set : us[i].lane = lane /\ \A j \in set : j <= i

\* The updater of a tick that waits in the queue runs in the render of lane
\* "D", when the snake hook, the first one, comes to it: on the snake the
\* updates before it give.  The setters it calls add their updates, of the
\* lane rendered, to the queues of hooks the render has yet to process.
tickAt(us) == {i \in 1..Len(us) : us[i].kind = "tick"}

hasTick(fib) == tickAt(fib.queue.snake) # {}

tickOutcome(fib, f) ==
  LET k == CHOOSE i \in tickAt(fib.queue.snake) : TRUE
  IN  moveSnake(fib.closure,
                reduce(SubSeq(fib.queue.snake, 1, k - 1), fib.base.snake, "D"),
                f)

RECURSIVE pushAll(_, _, _)
pushAll(fib, calls, lane) ==
  IF Len(calls) = 0 THEN fib
  ELSE pushAll(push(fib, Head(calls).hook, enqueue(Head(calls), lane)), Tail(calls), lane)

runTick(fib, f) ==
  IF ~hasTick(fib) THEN fib
  ELSE LET k   == CHOOSE i \in tickAt(fib.queue.snake) : TRUE
           out == tickOutcome(fib, f)
           ret == IF out.kept THEN keepSnake
                  ELSE enqueue(setState("snake", out.snake), "D")
       IN  pushAll([fib EXCEPT !.queue.snake[k] = ret,
                               !.closure = hooks(SnakeStart),
                               !.ate = @ \/ out.ate],
                   out.calls, "D")

\* A render of the component in lane lane and its commit, from the state g
\* of the last render: the state rendered (game), the fibers after the
\* commit, and whether an effect has a dependency that changed (effects).
\* When no hook changed the render bails out and only takes the lane off
\* the current fiber; otherwise the fiber that was current keeps its lanes
\* as the alternate.
renderWithHooks(fib, g, lane) ==
  LET next(h) == reduce(fib.queue[h], fib.base[h], lane)
      from(h) == baseState(fib.queue[h], fib.base[h], lane)
      rest(h) == rebase(fib.queue[h], lane)
      after   == [snake |-> next("snake"), food |-> next("food"),
                  direction |-> next("direction"), nextDirection |-> next("nextDirection"),
                  isPlaying |-> next("isPlaying"), score |-> next("score"),
                  length |-> next("length"), highScore |-> next("highScore"),
                  stored |-> NoItem,
                  gameOver |-> next("gameOver"), isMobile |-> next("isMobile")]
      left    == [snake |-> rest("snake"), food |-> rest("food"),
                  direction |-> rest("direction"), nextDirection |-> rest("nextDirection"),
                  isPlaying |-> rest("isPlaying"), score |-> rest("score"),
                  length |-> rest("length"), highScore |-> rest("highScore"),
                  gameOver |-> rest("gameOver"), isMobile |-> rest("isMobile")]
      differs(h) == IF h \in RefHooks THEN fresh(fib.queue[h], lane)
                    ELSE after[h] # g[h]
      changed == \E h \in SnakeHooks : differs(h)
  IN  [game |-> after,
       fiber |->
         [fib EXCEPT
            !.base = [snake |-> from("snake"), food |-> from("food"),
                      direction |-> from("direction"), nextDirection |-> from("nextDirection"),
                      isPlaying |-> from("isPlaying"), score |-> from("score"),
                      length |-> from("length"), highScore |-> from("highScore"),
                      stored |-> NoItem,
                      gameOver |-> from("gameOver"), isMobile |-> from("isMobile")],
            !.queue = left,
            !.cur = UNION {{left[h][i].lane : i \in 1..Len(left[h])} : h \in SnakeHooks} \ {"N"},
            !.alt = IF changed THEN fib.cur ELSE fib.cur \ {lane}],
       effects |-> \E h \in SnakeHooks \ {"isMobile"} : differs(h)]

VARIABLES board, score, highScore, stored, gameOver, won, isPlaying,
          bound, last, left,
          grid, phase, dir, res, again, over, mem,
          touchStartRef, swipe,
          inbox, loop,
          snakeGame, snakeFiber, snakeBound, snakeLast, stepsLeft

session == <<board, score, highScore, stored, gameOver, won, isPlaying, bound, last, left>>

harness == <<grid, phase, dir, res, again, over, mem>>

touch == <<touchStartRef, swipe>>

tasks == <<inbox, loop>>

snakeSession == <<snakeGame, snakeFiber, snakeBound, snakeLast, stepsLeft>>

vars == <<board, score, highScore, stored, gameOver, won, isPlaying, bound, last, left,
          grid, phase, dir, res, again, over, mem,
          touchStartRef, swipe,
          inbox, loop,
          snakeGame, snakeFiber, snakeBound, snakeLast, stepsLeft>>

NoResult == [newBoard |-> ZeroBoard, scoreIncrease |-> 0, moved |-> FALSE, setWon |-> FALSE]

\* The values a handleMove created in the current render captures.
Closure ==
  [board |-> board, score |-> score, highScore |-> highScore,
   gameOver |-> gameOver, won |-> won, isPlaying |-> isPlaying]

\* The session state an input finds.
Snapshot ==
  [board |-> board, score |-> score, highScore |-> highScore, stored |-> stored,
   gameOver |-> gameOver, won |-> won, isPlaying |-> isPlaying]

NoSnapshot ==
  [board |-> ZeroBoard, score |-> 0, highScore |-> Num(0), stored |-> NoItem,
   gameOver |-> FALSE, won |-> FALSE, isPlaying |-> FALSE]

\* last.op: the kind of the last input ("none" before the first); for a
\* directional input, ran tells whether handleMove got past line 159, res is
\* what the move function returned and prev the session state it found.
NoInput == [op |-> "none", ran |-> FALSE, res |-> NoResult, prev |-> NoSnapshot]

\* No array allocated.
NoMem == [heap |-> << >>, input |-> 0, output |-> 0]

\* The session variables while only the engine harness runs.
SessionIdle ==
  /\ board = ZeroBoard /\ score = 0 /\ highScore = Num(0) /\ stored = NoItem
  /\ gameOver = FALSE /\ won = FALSE /\ isPlaying = TRUE
  /\ bound = Closure
  /\ last = NoInput /\ left = 0

\* The harness variables while only the session runs.
HarnessIdle ==
  /\ grid = ZeroBoard /\ phase = "idle" /\ dir = "none"
  /\ res = NoResult /\ again = NoResult /\ over = FALSE
  /\ mem = NoMem

\* The touch variables while no touch handler runs.
TouchIdle == touchStartRef = NoTouch /\ swipe = NoSwipe

\* loop: pending tells that an input handler has returned and the render of
\* its updates has not run yet, newBoard whether that handler called
\* setBoard, early whether the input it handled was delivered while the
\* render of the input before it was pending.
NoRender == [pending |-> FALSE, newBoard |-> FALSE, early |-> FALSE]

\* The task variables while inputs are taken one step each.
TasksIdle == inbox = << >> /\ loop = NoRender

\* snakeLast: the last Snake step; for the render of a tick, ate tells
\* whether the updater took the branch of line 120.
NoSnakeInput == [op |-> "none", ate |-> FALSE]

\* snakeFiber: the hooks of the component as React holds them.  base is the
\* state the next render starts from, hook by hook, and queue the updates
\* no render has dropped yet; closure holds the values the updater of a
\* tick that waits in the queue closed over; cur and alt are the lanes marked on the
\* current fiber and on its alternate (those of cur wait for a render);
\* passive tells that the effects of the last commit have not run yet, ate
\* that the updater of a tick not rendered yet took the branch of line 120,
\* and n counts the inputs handled.
NoUpdates ==
  [snake |-> << >>, food |-> << >>, direction |-> << >>, nextDirection |-> << >>,
   isPlaying |-> << >>, score |-> << >>, length |-> << >>, highScore |-> << >>,
   gameOver |-> << >>, isMobile |-> << >>]

FiberOf(g, queue, alt) ==
  [base |-> hooks(g), queue |-> queue, closure |-> hooks(SnakeStart),
   cur |-> {}, alt |-> alt,
   passive |-> FALSE, ate |-> FALSE, n |-> 0]

\* The Snake variables while no Snake game runs.
SnakeIdle ==
  /\ snakeGame = SnakeStart /\ snakeFiber = FiberOf(SnakeStart, NoUpdates, {})
  /\ snakeBound = hooks(SnakeStart)
  /\ snakeLast = NoSnakeInput /\ stepsLeft = 0

(***************************************************************************)
(* Engine specification: the move functions and isGameOver applied to an   *)
(* input grid.  EngineMove calls the move function of a direction on the   *)
(* grid; EngineMoveAgain calls the same function on the grid it returned,  *)
(* with no spawn in between; EngineIsGameOver calls isGameOver(grid).      *)
(* The calls are made in the order isGameOver, move, move again.           *)
(***************************************************************************)
EngineInit ==
  /\ SessionIdle /\ TouchIdle /\ TasksIdle /\ SnakeIdle
  /\ grid \in EngineGrids
  /\ phase = "input" /\ dir = "none"
  /\ res = NoResult /\ again = NoResult /\ over = FALSE
  /\ mem = NoMem

EngineMove(d) ==
  /\ phase = "checked"
  /\ phase' = "moved"
  /\ dir' = d
  /\ res' = applyMove(d, grid, FALSE)
  /\ UNCHANGED <<grid, again, over, mem>>
  /\ UNCHANGED <<session, touch, tasks, snakeSession>>

EngineMoveAgain ==
  /\ phase = "moved"
  /\ phase' = "again"
  /\ again' = applyMove(dir, res.newBoard, FALSE)
  /\ UNCHANGED <<grid, dir, res, over, mem>>
  /\ UNCHANGED <<session, touch, tasks, snakeSession>>

EngineIsGameOver ==
  /\ phase = "input"
  /\ phase' = "checked"
  /\ over' = isGameOver(grid)
  /\ UNCHANGED <<grid, dir, res, again, mem>>
  /\ UNCHANGED <<session, touch, tasks, snakeSession>>

EngineNext ==
  \/ EngineIsGameOver
  \/ \E d \in Directions : EngineMove(d)
  \/ EngineMoveAgain

EngineSpec == EngineInit /\ [][EngineNext]_vars

(***************************************************************************)
(* Malformed input.  The move functions and isGameOver take any number[][] *)
(* (type Board, line 10); nothing in them tests the cell values.  The      *)
(* specification below runs the engine harness on 4 x 4 grids in which one *)
(* cell holds a value that is no tile: 3, 6 or -2.                         *)
(***************************************************************************)
BadValues == {3, 6, 0 - 2}

\* The small families: grids of at most MaxSeedTiles spawned tiles, and the
\* checkerboard with at most MaxSeedEdits cells overwritten.
MaxSeedTiles == 1

MaxSeedEdits == 1

MalformedGrids ==
  {[g EXCEPT ![i][j] = v] :
     g \in {ZeroBoard, Checkerboard} \cup Spawned(MaxSeedTiles),
     i \in Idx, j \in Idx, v \in BadValues}

MalformedInit ==
  /\ SessionIdle /\ TouchIdle /\ TasksIdle /\ SnakeIdle
  /\ grid \in MalformedGrids
  /\ phase = "input" /\ dir = "none"
  /\ res = NoResult /\ again = NoResult /\ over = FALSE
  /\ mem = NoMem

MalformedSpec == MalformedInit /\ [][EngineNext]_vars

(***************************************************************************)
(* Session specification.                                                  *)
(*                                                                         *)
(* A session starts (lines 28-36) with a board of initializeBoard, score   *)
(* 0, the best score parsed from the stored item, and the flags            *)
(* gameOver = false, won = false, isPlaying = true.  Late boards (a full   *)
(* board, a board with 1024 tiles) lie many accepted moves after the       *)
(* start, so the specification also starts from checkpoints: sessions      *)
(* that began with a given stored item and have been played, without a     *)
(* restart, to a given board and score.  The variable left bounds the      *)
(* exploration: from a checkpoint MaxMoves accepted moves are explored, a  *)
(* restart is explored up to its first move and uses the budget up; inputs *)
(* that leave the board in place (rejected moves, pause, "Keep going")     *)
(* are not limited.                                                        *)
(*                                                                         *)
(* Each input is one step: its handler runs to the end on the state the    *)
(* previous input left (the component is re-rendered, and the listeners    *)
(* re-bound to the new handleMove, between two input events).              *)
(***************************************************************************)
MaxMoves == 2

StoredAtStart == {NoItem, Item(<<"4", "0">>), Item(<<"a", "b", "c">>)}

\* One move and one spawn of 4 away from a terminal board.
NearTerminalBoard ==
  << <<2, 4, 0, 2>>,
     <<4, 2, 4, 2>>,
     <<2, 4, 2, 4>>,
     <<4, 2, 4, 2>> >>

\* Small tiles, merges available in row 1.
MidGameBoard ==
  << <<2, 2, 4, 2>>,
     <<4, 8, 2, 4>>,
     <<2, 4, 8, 2>>,
     <<4, 2, 4, 0>> >>

\* A board of a game that went on after its first 2048 tile: played from the
\* start board with tiles 2, 2 in row 1 by 1444 accepted moves, score 36484,
\* the win notice dismissed with "Keep going".  A pair of 1024 tiles lies in
\* row 2.
LateBoard ==
  << <<2, 2048, 2, 4>>,
     <<4, 8, 1024, 1024>>,
     <<2, 4, 2, 4>>,
     <<8, 16, 8, 2>> >>

Checkpoints ==
  { [board |-> NearTerminalBoard, score |-> 16,    item |-> NoItem],
    [board |-> MidGameBoard,      score |-> 36,    item |-> Item(<<"4", "0">>)],
    [board |-> NearTerminalBoard, score |-> 16,    item |-> Item(<<"a", "b", "c">>)],
    [board |-> LateBoard,         score |-> 36484, item |-> NoItem] }

\* useState initialisers, lines 28-36, for the stored item found.
SessionStart(b, item) ==
  /\ board = b
  /\ score = 0
  /\ highScore = parseInt(getItemOrZero(item))
  /\ stored = item
  /\ gameOver = FALSE /\ won = FALSE /\ isPlaying = TRUE

\* The session that started with cp.item and has been played to checkpoint
\* cp: the score only grew, so the best score was written iff the score
\* passed it.
SessionAt(cp) ==
  LET h0 == parseInt(getItemOrZero(cp.item))
  IN  /\ board = cp.board
      /\ score = cp.score
      /\ highScore = IF jsGreater(Num(cp.score), h0) THEN Num(cp.score) ELSE h0
      /\ stored = IF jsGreater(Num(cp.score), h0) THEN Item(toString(cp.score)) ELSE cp.item
      /\ gameOver = FALSE /\ won = FALSE /\ isPlaying = TRUE

Init ==
  /\ HarnessIdle /\ TouchIdle /\ TasksIdle /\ SnakeIdle
  /\ last = NoInput
  /\ \/ \E item \in StoredAtStart : \E b \in initializeBoard :
          SessionStart(b, item) /\ left = 0
     \/ \E cp \in Checkpoints : SessionAt(cp) /\ left = MaxMoves
  /\ bound = Closure

\* Variant of blocked: the pause flag is not consulted.
blockedWhenOver(over_, playing) == over_

\* Variant of accepts: the spawn and the updates run whatever the move did.
acceptsAlways(r) == TRUE

\* handleMove, line 159: the input is dropped.
blocked(over_, playing) == over_ \/ ~playing

\* handleMove, line 177: the move is accepted.
accepts(r) == r.moved

(***************************************************************************)
(* handleMove(direction), lines 158-193, with the calls it makes: the move *)
(* function (which may call setWon, line 91), addRandomTile, the setters,  *)
(* localStorage.setItem and isGameOver.  The values it reads are those of  *)
(* its closure; the setters write the state.                               *)
(***************************************************************************)
HandleMove(direction) ==
  IF blocked(bound.gameOver, bound.isPlaying)
    THEN /\ last' = [op |-> "move", ran |-> FALSE, res |-> NoResult, prev |-> Snapshot]
         /\ UNCHANGED <<board, score, highScore, stored, gameOver, won, isPlaying, left>>
    ELSE LET result == applyMove(direction, bound.board, bound.won)
         IN  /\ last' = [op |-> "move", ran |-> TRUE, res |-> result, prev |-> Snapshot]
             /\ won' = IF result.setWon THEN TRUE ELSE won
             /\ IF accepts(result)
                  THEN /\ left > 0
                       /\ left' = left - 1
                       /\ \E newBoard \in addRandomTile(result.newBoard) :
                            /\ board' = newBoard
                            /\ IF isGameOver(newBoard)
                                 THEN gameOver' = TRUE /\ isPlaying' = FALSE
                                 ELSE UNCHANGED <<gameOver, isPlaying>>
                       /\ LET newScore == bound.score + result.scoreIncrease
                          IN  /\ score' = newScore
                              /\ IF jsGreater(Num(newScore), bound.highScore)
                                   THEN /\ highScore' = Num(newScore)
                                        /\ stored' = Item(toString(newScore))
                                   ELSE UNCHANGED <<highScore, stored>>
                  ELSE UNCHANGED <<board, score, highScore, stored, gameOver,
                                   isPlaying, left>>

\* Variant of TogglePause: the gameOver test is missing.
TogglePauseAlways ==
  /\ isPlaying' = ~isPlaying
  /\ last' = [op |-> "toggle", ran |-> FALSE, res |-> NoResult, prev |-> NoSnapshot]
  /\ UNCHANGED <<board, score, highScore, stored, gameOver, won, left>>

\* The space key (lines 212-215) and the footer button (lines 566-570).
TogglePause ==
  /\ isPlaying' = IF gameOver THEN isPlaying ELSE ~isPlaying
  /\ last' = [op |-> "toggle", ran |-> FALSE, res |-> NoResult, prev |-> NoSnapshot]
  /\ UNCHANGED <<board, score, highScore, stored, gameOver, won, left>>

\* "Keep going" (line 500), a button of the win overlay (line 483).
KeepGoing ==
  /\ won /\ ~gameOver
  /\ won' = FALSE
  /\ last' = [op |-> "keepGoing", ran |-> FALSE, res |-> NoResult, prev |-> NoSnapshot]
  /\ UNCHANGED <<board, score, highScore, stored, gameOver, isPlaying, left>>

\* Variant of HandleRestart: setWon(false) is missing.
HandleRestartKeepsWon ==
  /\ left > 0 /\ left >= MaxMoves - 1
  /\ \E b \in initializeBoard : board' = b
  /\ score' = 0
  /\ gameOver' = FALSE
  /\ isPlaying' = TRUE
  /\ last' = [op |-> "restart", ran |-> FALSE, res |-> NoResult, prev |-> NoSnapshot]
  /\ left' = 0
  /\ UNCHANGED <<highScore, stored, won>>

\* handleRestart, lines 273-280.  The guard on left and left' = 0 are the
\* exploration bound: a restart is explored from the checkpoint and after
\* its first accepted move (so also after a win and after a loss), and is
\* followed by no further accepted move.
HandleRestart ==
  /\ left > 0 /\ left >= MaxMoves - 1
  /\ \E b \in initializeBoard : board' = b
  /\ score' = 0
  /\ gameOver' = FALSE
  /\ won' = FALSE
  /\ isPlaying' = TRUE
  /\ last' = [op |-> "restart", ran |-> FALSE, res |-> NoResult, prev |-> NoSnapshot]
  /\ left' = 0
  /\ UNCHANGED <<highScore, stored>>

\* Variant of handleMoveDeps: board is missing from the dependency list.
handleMoveDepsNoBoard(c, newBoard) ==
  <<c.score, c.highScore, c.gameOver, c.isPlaying, c.won>>

\* The dependency list of useCallback, line 193, as React compares it with
\* the list of the previous render: element by element with Object.is.
\* score, highScore and the flags are primitives and compare by value; board
\* is an array and compares by identity.  newBoard tells whether c.board is
\* an array made since the previous render: setBoard is called at lines 181
\* and 274 only, with the array addRandomTile or initializeBoard has just
\* built, so the board of a render is the array of the previous render iff
\* setBoard was not called in between.
handleMoveDeps(c, newBoard) ==
  <<IF newBoard THEN <<"new array", c.board>> ELSE <<"same array", c.board>>,
    c.score, c.highScore, c.gameOver, c.isPlaying, c.won>>

\* The render that follows an input; newBoard tells whether the input called
\* setBoard.  useCallback makes a new handleMove when a dependency changed,
\* and the effects of lines 196-221 and 223-271, which depend on handleMove,
\* run again: the listeners are bound to the new handleMove and the touch
\* effect makes a new touchStartRef, whose current is null (line 225).
\* Otherwise the listeners keep the handleMove and the touchStartRef they
\* have.
Rebind(newBoard) ==
  LET next == [board |-> board', score |-> score', highScore |-> highScore',
               gameOver |-> gameOver', won |-> won', isPlaying |-> isPlaying']
      changed == handleMoveDeps(next, newBoard) # handleMoveDeps(bound, FALSE)
  IN  /\ bound' = IF changed THEN next ELSE bound
      /\ touchStartRef' = IF changed THEN NoTouch ELSE touchStartRef

\* handleMove called setBoard (line 181) in the step taken.
MoveSetBoard == last'.ran /\ accepts(last'.res)

Next ==
  \/ \E direction \in Directions :
       HandleMove(direction) /\ Rebind(MoveSetBoard)
         /\ UNCHANGED <<harness, swipe, tasks, snakeSession>>
  \/ TogglePause /\ Rebind(FALSE) /\ UNCHANGED <<harness, swipe, tasks, snakeSession>>
  \/ KeepGoing /\ Rebind(FALSE) /\ UNCHANGED <<harness, swipe, tasks, snakeSession>>
  \/ HandleRestart /\ Rebind(TRUE) /\ UNCHANGED <<harness, swipe, tasks, snakeSession>>

Spec == Init /\ [][Next]_vars

(***************************************************************************)
(* Delivery specification: the same session with the input events and the  *)
(* render as steps of their own.  Deliver puts a key press or a click in   *)
(* the page's queue of events, at any time, also while the handler of the  *)
(* previous event has returned and its updates are not rendered yet.       *)
(* Dispatch runs the listener of the first event of the queue to the end:  *)
(* the handleMove the listener is bound to computes from the values of its *)
(* closure and calls the setters.  Render is the render of those updates   *)
(* with the effects that follow it.  The session variables hold the values *)
(* passed to the setters from the Dispatch step on; nothing reads them     *)
(* before the Render step.                                                 *)
(***************************************************************************)
MaxInbox == 2

Inputs == Directions \cup {"toggle", "keepGoing", "restart"}

LoopInit ==
  /\ HarnessIdle /\ TouchIdle /\ TasksIdle /\ SnakeIdle
  /\ last = NoInput
  /\ \E cp \in Checkpoints : SessionAt(cp)
  /\ left = MaxMoves
  /\ bound = Closure

\* An input event arrives.  A click on "Keep going" arrives only while the
\* win overlay shows the button (line 483).  Events are delivered while a
\* move is left to explore.
Deliver(input) ==
  /\ Len(inbox) < MaxInbox
  /\ left > 0
  /\ input = "keepGoing" => (won /\ ~gameOver)
  /\ inbox' = Append(inbox, [input |-> input, early |-> loop.pending])
  /\ UNCHANGED <<session, harness, touch, loop, snakeSession>>

\* The page takes the next event from its queue when the task of the
\* previous one is over.  React 18 renders the updates made in a keydown,
\* click or touchend before that task ends, and runs the effects of the
\* render with it: no event is dispatched while a render is pending.
Flushed == ~loop.pending

\* The listener of the first event in the queue (lines 197-216 for the keys,
\* 401 and 500 for the buttons).  A click whose button the render before it
\* took away reaches no handler.
Dispatch ==
  /\ inbox # << >>
  /\ Flushed
  /\ LET event == Head(inbox)
     IN  /\ inbox' = Tail(inbox)
         /\ \/ /\ event.input \in Directions
               /\ HandleMove(event.input)
               /\ loop' = [pending |-> TRUE, newBoard |-> MoveSetBoard,
                           early |-> event.early]
            \/ /\ event.input = "toggle"
               /\ TogglePause
               /\ loop' = [pending |-> TRUE, newBoard |-> FALSE,
                           early |-> event.early]
            \/ /\ event.input = "keepGoing"
               /\ IF won /\ ~gameOver
                    THEN KeepGoing
                    ELSE UNCHANGED <<board, score, highScore, stored, gameOver,
                                     won, isPlaying, last, left>>
               /\ loop' = [pending |-> TRUE, newBoard |-> FALSE,
                           early |-> event.early]
            \/ /\ event.input = "restart"
               /\ left = MaxMoves
               /\ HandleRestart
               /\ loop' = [pending |-> TRUE, newBoard |-> TRUE,
                           early |-> event.early]
  /\ UNCHANGED <<bound, touchStartRef, swipe, harness, snakeSession>>

\* The render of the updates of the last handler, and its effects.
Render ==
  /\ loop.pending
  /\ UNCHANGED <<board, score, highScore, stored, gameOver, won, isPlaying,
                 last, left, inbox, swipe, harness, snakeSession>>
  /\ Rebind(loop.newBoard)
  /\ loop' = [loop EXCEPT !.pending = FALSE]

LoopNext ==
  \/ \E input \in Inputs : Deliver(input)
  \/ Dispatch
  \/ Render

LoopSpec == LoopInit /\ [][LoopNext]_vars

(***************************************************************************)
(* Array specification: handleMove's calls on the arrays (lines 161-178).  *)
(* The board passed is a board of distinct rows, as initializeBoard and    *)
(* the move functions build them.  HeapMove calls the move function of a   *)
(* direction on it; HeapSpawn is addRandomTile(result.newBoard), which     *)
(* handleMove calls when the move reported moved.  grid keeps the grid the *)
(* board held when it was passed, res the result of the move.              *)
(***************************************************************************)
HeapGrids ==
  Spawned(MaxSeedTiles) \cup Edited(MaxSeedEdits)
    \cup {NearTerminalBoard, MidGameBoard, LateBoard}

HeapInit ==
  /\ SessionIdle /\ TouchIdle /\ TasksIdle /\ SnakeIdle
  /\ grid \in HeapGrids
  /\ phase = "held" /\ dir = "none"
  /\ res = NoResult /\ again = NoResult /\ over = FALSE
  /\ mem = [heap   |-> Append(grid, asSeq([i \in 1..GRID_SIZE |-> i])),
            input  |-> GRID_SIZE + 1,
            output |-> 0]

HeapMove(d) ==
  /\ phase = "held"
  /\ phase' = "returned"
  /\ dir' = d
  /\ res' = applyMove(d, grid, FALSE)
  /\ LET r == applyMoveAt(d, mem.heap, mem.input)
     IN  mem' = [heap |-> r.heap, input |-> mem.input, output |-> r.ref]
  /\ UNCHANGED <<grid, again, over>>
  /\ UNCHANGED <<session, touch, tasks, snakeSession>>

HeapSpawn ==
  /\ phase = "returned"
  /\ res.moved
  /\ phase' = "spawned"
  /\ \E h \in addRandomTileAt(mem.heap, mem.output) : mem' = [mem EXCEPT !.heap = h]
  /\ UNCHANGED <<grid, dir, res, again, over>>
  /\ UNCHANGED <<session, touch, tasks, snakeSession>>

HeapNext ==
  \/ \E d \in Directions : HeapMove(d)
  \/ HeapSpawn

HeapSpec == HeapInit /\ [][HeapNext]_vars

(***************************************************************************)
(* Touch specification: touchstart and touchend events on the 2048 board   *)
(* of a session that is under way, with the inputs of the session between  *)
(* them.  A touch starts at one of StartPoints and ends at one of          *)
(* EndPoints, so that each displacement takes the values around 0, around  *)
(* the threshold and up to 2 * MaxDelta, of either sign; either event may  *)
(* also carry an empty touch list.  The exploration is bounded: a touch    *)
(* starts while a move is left, and what follows a touchend is the next    *)
(* touchstart.                                                             *)
(***************************************************************************)
SwipeDeltas ==
  LET d == {0, 1, SwipeThreshold - 1, SwipeThreshold, MaxDelta}
  IN  d \cup {0 - x : x \in d}

StartPoints == {<<MaxDelta, MaxDelta>>, <<0, 0>>}

EndPoints == {<<MaxDelta + dx, MaxDelta + dy>> : dx \in SwipeDeltas, dy \in SwipeDeltas}

TouchLists(points) == {<< >>} \cup {<<p>> : p \in points}

SwipeCheckpoints ==
  { [board |-> MidGameBoard, score |-> 36,    item |-> Item(<<"4", "0">>)],
    [board |-> LateBoard,    score |-> 36484, item |-> NoItem] }

SwipeInit ==
  /\ HarnessIdle /\ TouchIdle /\ TasksIdle /\ SnakeIdle
  /\ last = NoInput
  /\ \E cp \in SwipeCheckpoints : SessionAt(cp)
  /\ left = MaxMoves - 1
  /\ bound = Closure

\* The touchstart listener (lines 227-231): no state is set, nothing is
\* rendered.
TouchStart(touches) ==
  /\ touchStartRef' = handleTouchStart(touchStartRef, touches)
  /\ swipe' = [op |-> "touchstart", ref |-> NoTouch,
               start |-> IF Len(touches) > 0 THEN touches[1] ELSE NoTouch,
               touches |-> touches, calls |-> << >>]
  /\ UNCHANGED <<session, harness, tasks, snakeSession>>

\* The touchend listener (lines 233-257) with the handleMove it calls and
\* the render that follows.
TouchEnd(changedTouches) ==
  LET calls == handleTouchEnd(touchStartRef, changedTouches)
  IN  /\ swipe' = [op |-> "touchend", ref |-> touchStartRef,
                   start |-> swipe.start,
                   touches |-> changedTouches, calls |-> calls]
      /\ IF calls = << >>
           THEN UNCHANGED <<board, score, highScore, stored, gameOver, won,
                            isPlaying, last, left>>
           ELSE HandleMove(calls[1])
      /\ Rebind(calls # << >> /\ MoveSetBoard)
      /\ UNCHANGED <<harness, tasks, snakeSession>>

SwipeNext ==
  \/ \E touches \in TouchLists(StartPoints) : left > 0 /\ TouchStart(touches)
  \/ \E changedTouches \in TouchLists(EndPoints) :
       swipe.op # "touchend" /\ TouchEnd(changedTouches)
  \/ \E direction \in Directions :
       swipe.op # "touchend" /\ HandleMove(direction) /\ Rebind(MoveSetBoard)
         /\ UNCHANGED <<harness, swipe, tasks, snakeSession>>
  \/ swipe.op # "touchend" /\ TogglePause /\ Rebind(FALSE) /\ UNCHANGED <<harness, swipe, tasks, snakeSession>>
  \/ swipe.op # "touchend" /\ KeepGoing /\ Rebind(FALSE) /\ UNCHANGED <<harness, swipe, tasks, snakeSession>>
  \/ swipe.op # "touchend" /\ HandleRestart /\ Rebind(TRUE) /\ UNCHANGED <<harness, swipe, tasks, snakeSession>>

SwipeSpec == SwipeInit /\ [][SwipeNext]_vars

(***************************************************************************)
(* Snake specification.  A game is entered at construction, on a desktop   *)
(* or on a mobile device, or at one of three positions of play: one cell   *)
(* above the food, with a snake of five segments below the food and beside *)
(* its own body, and at the right wall.  Ticks are counted down from       *)
(* MaxSteps, and MaxInputs inputs are followed in a game, at any place     *)
(* between the other steps; after a restart, and after a tick in which the *)
(* snake ate, the food is one of 874 cells, and no further input or tick   *)
(* is followed.                                                            *)
(*                                                                         *)
(* snakeGame is the state of the last render, with the stored item as it   *)
(* is now; the handlers of the buttons are those of that render.           *)
(* snakeBound is the state of the render whose effects ran last: what the  *)
(* listeners of window and the moveSnake of the interval closed over.      *)
(* Each action is one task of the event loop:                              *)
(*  - SnakeTick: the timer callback.  It only calls setSnake(updater);     *)
(*    the updater runs at once on clean fibers, otherwise in the render.   *)
(*    The interval exists while the isPlaying of snakeBound holds, and the *)
(*    tasks of React queued before the timer fires run before it.          *)
(*  - SnakeRender: the task in which React renders lane "D".  Updates of   *)
(*    lane "S" that wait in the queue are rendered in the same task.       *)
(*  - SnakeEffects: the task in which the effects of that commit run       *)
(*    (lines 140-145, 147-180): listeners and interval are set again.      *)
(*  - A keydown, click or resize: the handler, then the render of lane "S" *)
(*    and its effects, which come before the next task.  That render       *)
(*    leaves the updates of lane "D" in the queue.                         *)
(***************************************************************************)
MaxSteps == 2

MaxInputs == 3

BeforeFood ==
  [SnakeStart EXCEPT !.snake = <<Pos(15, 14)>>,
                     !.direction = "DOWN", !.nextDirection = "DOWN"]

LongSnake ==
  [SnakeStart EXCEPT !.snake = <<Pos(10, 10), Pos(10, 11), Pos(11, 11), Pos(11, 10), Pos(12, 10)>>,
                     !.food = Pos(10, 9),
                     !.direction = "UP", !.nextDirection = "UP",
                     !.score = 40, !.length = 5,
                     !.highScore = Num(40), !.stored = Item(toString(40))]

AtWall ==
  [SnakeStart EXCEPT !.snake = <<Pos(GRID_COLS - 1, 12)>>]

SnakeCheckpoints == {BeforeFood, LongSnake, AtWall}

\* The component after its first render and the effect of lines 41-49,
\* where checkMobile has run once.  On a desktop setIsMobile(false) finds
\* the state in place: its update stays in the queue and no lane is marked.
\* On a mobile device setIsMobile(true) was rendered in lane "D", which the
\* fiber that is now the alternate keeps.
MountedDesktop ==
  /\ snakeGame = SnakeStart
  /\ snakeFiber = FiberOf(SnakeStart,
                        [NoUpdates EXCEPT !.isMobile = <<enqueue(setState("isMobile", FALSE), "D")>>],
                        {})

MountedMobile ==
  /\ snakeGame = [SnakeStart EXCEPT !.isMobile = TRUE]
  /\ snakeFiber = FiberOf(snakeGame, NoUpdates, {"D"})

\* A position of play: the queue is empty, and the fibers are clean when
\* the last render changed nothing.
InPlay ==
  \E g \in SnakeCheckpoints, alt \in {{}, {"D"}} :
    /\ snakeGame = g
    /\ snakeFiber = FiberOf(g, NoUpdates, alt)

SnakeInit ==
  /\ SessionIdle /\ HarnessIdle /\ TouchIdle /\ TasksIdle
  /\ (MountedDesktop \/ MountedMobile \/ InPlay)
  /\ snakeBound = hooks(snakeGame)
  /\ snakeLast = NoSnakeInput
  /\ stepsLeft = MaxSteps

\* The updater of a tick that no render has applied yet places a food.
FoodWaits ==
  snakeFiber.ate \/ (hasTick(snakeFiber) /\ tickOutcome(snakeFiber, Centre).ate)

\* A tick of the interval of lines 140-144: the moveSnake of snakeBound
\* calls setSnake(updater).  A tick in which the snake eats is followed
\* from an entry position.
SnakeTick ==
  /\ stepsLeft > 0
  /\ eats(snakeBound, snakeGame.snake) => snakeLast.op = "none"
  /\ snakeBound.isPlaying
  /\ "D" \notin snakeFiber.cur /\ ~snakeFiber.passive
  /\ IF isClean(snakeFiber)
       THEN \E f \in IF eats(snakeBound, snakeGame.snake)
                       THEN generateFood(snakeBound.snake) ELSE {snakeBound.food} :
              LET out == moveSnake(snakeBound, snakeGame.snake, f)
              IN  /\ snakeGame' = [snakeGame EXCEPT !.stored = setItem(out.item, @)]
                  /\ snakeFiber' = [dispatchEager(snakeFiber, snakeGame, out)
                                      EXCEPT !.n = IF out.ate THEN MaxInputs ELSE @]
                  /\ stepsLeft' = IF out.ate THEN 0 ELSE stepsLeft - 1
       ELSE /\ snakeFiber' = dispatchLazy(snakeFiber, snakeBound)
            /\ stepsLeft' = stepsLeft - 1
            /\ UNCHANGED snakeGame
  /\ snakeLast' = [op |-> "tick", ate |-> FALSE]
  /\ UNCHANGED snakeBound
  /\ UNCHANGED <<session, harness, touch, tasks>>

\* The render of lane "D" and its commit.  An updater that waits runs in
\* it.  Updates of lane "S" that it left in the queue are rendered before
\* the task ends, after the effects of this commit.
SnakeRender ==
  /\ "D" \in snakeFiber.cur
  /\ \E f \in IF hasTick(snakeFiber) /\ tickOutcome(snakeFiber, Centre).ate
                THEN generateFood(snakeFiber.closure.snake)
                ELSE {Centre} :
       LET item   == IF hasTick(snakeFiber) THEN tickOutcome(snakeFiber, f).item ELSE << >>
           ran    == runTick(snakeFiber, f)
           first  == renderWithHooks(ran, snakeGame, "D")
           sync   == "S" \in first.fiber.cur
           second == IF sync THEN renderWithHooks(first.fiber, first.game, "S") ELSE first
       IN  /\ snakeGame' = [second.game EXCEPT !.stored = setItem(item, snakeGame.stored)]
           /\ snakeFiber' = [second.fiber EXCEPT !.passive = ~sync /\ first.effects,
                                                 !.ate = FALSE,
                                                 !.n = IF ran.ate THEN MaxInputs ELSE @]
           /\ snakeBound' = IF sync THEN second.game ELSE snakeBound
           /\ snakeLast' = [op |-> "render", ate |-> ran.ate]
           /\ stepsLeft' = IF ran.ate THEN 0 ELSE stepsLeft
  /\ UNCHANGED <<session, harness, touch, tasks>>

\* The effects of the last commit of lane "D" run.
SnakeEffects ==
  /\ snakeFiber.passive
  /\ snakeBound' = hooks(snakeGame)
  /\ snakeFiber' = [snakeFiber EXCEPT !.passive = FALSE]
  /\ UNCHANGED <<snakeGame, snakeLast, stepsLeft>>
  /\ UNCHANGED <<session, harness, touch, tasks>>

\* A keydown, click or resize whose handler made the calls calls.  When a
\* lane is marked the component is rendered before the next task: effects
\* that wait run first, then the render of lane "S" and its effects.
\* follow: inputs are followed after this one.  No input is followed while
\* a food that a tick placed waits for its render.
SnakeEvent(op, calls, follow) ==
  /\ snakeFiber.n < MaxInputs
  /\ ~FoodWaits
  /\ LET sent == dispatchAll(snakeFiber, snakeGame, calls, "S")
         sync == renderWithHooks(sent, snakeGame, "S")
     IN  IF "S" \in sent.cur
           THEN /\ snakeGame' = [sync.game EXCEPT !.stored = snakeGame.stored]
                /\ snakeFiber' = [sync.fiber EXCEPT !.passive = FALSE,
                                                    !.n = IF follow THEN @ + 1 ELSE MaxInputs]
                /\ snakeBound' = sync.game
           ELSE /\ snakeFiber' = [sent EXCEPT !.n = IF follow THEN @ + 1 ELSE MaxInputs]
                /\ UNCHANGED <<snakeGame, snakeBound>>
  /\ snakeLast' = [op |-> op, ate |-> FALSE]
  /\ UNCHANGED <<session, harness, touch, tasks>>

\* A key of direction d (lines 149-171), handled by the listener of
\* snakeBound.
SnakeKey(d) ==
  /\ SnakeEvent("key", handleKey(snakeBound, d), TRUE)
  /\ UNCHANGED stepsLeft

\* The space key (lines 172-175).
SnakePause ==
  /\ SnakeEvent("pause", handleKeySpace(snakeBound), TRUE)
  /\ UNCHANGED stepsLeft

\* A click on the pause button (lines 455-462), disabled while gameOver.
SnakePauseClick ==
  /\ ~snakeGame.gameOver
  /\ SnakeEvent("pause", handlePauseClick(snakeGame), TRUE)
  /\ UNCHANGED stepsLeft

\* A click on a direction button (lines 408, 416, 431, 439 of the mobile
\* controls), shown while isMobile and disabled while gameOver or paused.
SnakeDirectionClick(d) ==
  /\ snakeGame.isMobile
  /\ ~(snakeGame.gameOver \/ ~snakeGame.isPlaying)
  /\ SnakeEvent("button", handleDirectionChange(snakeGame, d), TRUE)
  /\ UNCHANGED stepsLeft

\* The window is resized (line 47): checkMobile runs again.
SnakeResize(m) ==
  /\ SnakeEvent("resize", checkMobile(m), TRUE)
  /\ UNCHANGED stepsLeft

\* handleRestart (lines 232-234).  Followed as the first input of a game
\* before its first tick and, after at most one other input, from a lost
\* game and while the updates of a tick wait for their render.
SnakeRestart ==
  /\ \/ snakeFiber.n = 0 /\ stepsLeft = MaxSteps
     \/ snakeFiber.n <= 1 /\ snakeGame.gameOver
     \/ snakeFiber.n <= 1 /\ stepsLeft > 0 /\ "D" \in snakeFiber.cur
  /\ \E f \in generateFood(snakeGame.snake) :
       SnakeEvent("reset", resetGame(f), FALSE)
  /\ stepsLeft' = 0

SnakeNext ==
  \/ SnakeTick
  \/ SnakeRender
  \/ SnakeEffects
  \/ \E d \in SnakeDirections : SnakeKey(d)
  \/ SnakePause
  \/ SnakePauseClick
  \/ \E d \in SnakeDirections : SnakeDirectionClick(d)
  \/ \E m \in BOOLEAN : SnakeResize(m)
  \/ SnakeRestart

SnakeSpec == SnakeInit /\ [][SnakeNext]_vars

(***************************************************************************)
(* Vocabulary of the engine properties.                                    *)
(***************************************************************************)
\* Line k of board b for direction d, read from the leading edge of d.
lineOf(b, d, k) ==
  CASE d = "left"  -> b[k]
    [] d = "right" -> reverse(b[k])
    [] d = "up"    -> asSeq([r \in 1..GRID_SIZE |-> b[r][k]])
    [] d = "down"  -> reverse(asSeq([r \in 1..GRID_SIZE |-> b[r][k]]))

SumBoard(b) == SumSeq(asSeq([i \in 1..GRID_SIZE |-> SumSeq(b[i])]))

\* Every sequence a zero-free line can become when each tile either stays or
\* merges with an equal neighbour, no tile taking part in two merges.
RECURSIVE MergedOnce(_)
MergedOnce(d) ==
  IF d = <<>> THEN {<<>>}
  ELSE {<<d[1]>> \o s : s \in MergedOnce(Tail(d))}
       \cup (IF Len(d) >= 2 /\ d[1] = d[2]
               THEN {<<2 * d[1]>> \o s : s \in MergedOnce(Tail(Tail(d)))}
               ELSE {})

\* The reference procedure on a zero-free line: scan from the left, merge
\* each adjacent equal pair once into its double.
RECURSIVE RefScan(_)
RefScan(d) ==
  IF Len(d) < 2 THEN [out |-> d, gain |-> 0]
  ELSE IF d[1] = d[2]
         THEN LET rest == RefScan(Tail(Tail(d)))
              IN  [out |-> <<2 * d[1]>> \o rest.out, gain |-> 2 * d[1] + rest.gain]
         ELSE LET rest == RefScan(Tail(d))
              IN  [out |-> <<d[1]>> \o rest.out, gain |-> rest.gain]

RefLine(line) ==
  LET r == RefScan(filterNonZero(line))
  IN  [out |-> r.out \o asSeq([k \in 1..(Len(line) - Len(r.out)) |-> 0]), gain |-> r.gain]

\* Two equal tiles side by side in some line of direction d.
AdjacentEqualInLine(b, d) ==
  \E k \in Idx : \E j \in 1..(GRID_SIZE - 1) :
    lineOf(b, d, k)[j] # 0 /\ lineOf(b, d, k)[j] = lineOf(b, d, k)[j + 1]

Cells == Idx \X Idx

Orthogonal(c1, c2) ==
  \/ (c1[1] = c2[1] /\ (c1[2] - c2[2] = 1 \/ c2[2] - c1[2] = 1))
  \/ (c1[2] = c2[2] /\ (c1[1] - c2[1] = 1 \/ c2[1] - c1[1] = 1))

Applied == phase \in {"moved", "again"}

(***************************************************************************)
(* C1.  No chain merging: in every line of a move, in every direction, the *)
(* tiles of the result are the tiles of the input line, each kept or       *)
(* merged with one equal neighbour, no tile merging twice; so every        *)
(* nonzero cell of the result is the value of an input tile of its line or *)
(* twice such a value.                                                     *)
(***************************************************************************)
C1_NoChainMerging ==
  Applied =>
    \A k \in Idx :
      LET in  == lineOf(grid, dir, k)
          out == lineOf(res.newBoard, dir, k)
      IN  /\ filterNonZero(out) \in MergedOnce(filterNonZero(in))
          /\ \A j \in Idx : out[j] # 0 =>
               \E i \in Idx : in[i] # 0 /\ (out[j] = in[i] \/ out[j] = 2 * in[i])

\* Left on a row [2,2,4,0] has given [4,4,0,0].
C1_Witness ==
  /\ phase = "moved" /\ dir = "left"
  /\ grid[2] = <<2, 2, 4, 0>> /\ res.newBoard[2] = <<4, 4, 0, 0>>

(***************************************************************************)
(* C2.  moveLeft returns, row by row, the line of the reference procedure  *)
(* (drop zeros, merge each adjacent equal pair once from the left, pad     *)
(* with zeros on the right), and its scoreIncrease is the sum of the       *)
(* doubled values those merges create.                                     *)
(***************************************************************************)
C2_MoveLeftIsReference ==
  (Applied /\ dir = "left") =>
    /\ \A i \in Idx : res.newBoard[i] = RefLine(grid[i]).out
    /\ res.scoreIncrease = SumSeq(asSeq([i \in 1..GRID_SIZE |-> RefLine(grid[i]).gain]))

\* Left on a row [2,2,4,4] has given [4,8,0,0] and scored 12.
C2_Witness ==
  /\ phase = "moved" /\ dir = "left"
  /\ grid[1] = <<2, 2, 4, 4>> /\ res.newBoard[1] = <<4, 8, 0, 0>>
  /\ grid[2] = <<4, 2, 4, 2>> /\ res.scoreIncrease = 12

(***************************************************************************)
(* C3 as stated: a second application of the same move, with no spawn in   *)
(* between, reports moved = false and returns the grid of the first.       *)
(***************************************************************************)
C3_SecondMoveIdle ==
  phase = "again" => (~again.moved /\ again.newBoard = res.newBoard)

(***************************************************************************)
(* C3 amended.  A second application of the same move never slides a tile: *)
(* it changes the grid exactly when the first result still holds two equal *)
(* tiles side by side in a line of that direction, which it then merges    *)
(* (scoreIncrease > 0); otherwise it reports moved = false and returns the *)
(* grid of the first application.                                          *)
(***************************************************************************)
C3_SecondMoveOnlyMerges ==
  phase = "again" =>
    /\ again.moved <=> AdjacentEqualInLine(res.newBoard, dir)
    /\ again.moved <=> again.scoreIncrease > 0
    /\ ~again.moved => again.newBoard = res.newBoard

\* Down applied twice: the second application merged what the first produced.
C3_Witness ==
  /\ phase = "again" /\ dir = "down"
  /\ res.moved /\ again.moved /\ again.scoreIncrease > 0

(***************************************************************************)
(* C4 as stated: the tile sum after a move is the tile sum before it plus  *)
(* the move's scoreIncrease.                                               *)
(***************************************************************************)
C4_SumGrowsByScore ==
  Applied => SumBoard(res.newBoard) = SumBoard(grid) + res.scoreIncrease

(***************************************************************************)
(* C4 amended.  The tile sum after a move, in any direction, equals the    *)
(* tile sum before it, whatever the scoreIncrease: a merge replaces two    *)
(* tiles v by one tile 2v.                                                 *)
(***************************************************************************)
C4_SumPreserved ==
  Applied => SumBoard(res.newBoard) = SumBoard(grid)

\* A move to the right that merged.
C4_Witness ==
  /\ phase = "moved" /\ dir = "right" /\ res.scoreIncrease > 0
  /\ SumBoard(grid) > 0

(***************************************************************************)
(* C5.  moved is true exactly when the returned grid differs from the      *)
(* input grid in some cell of the original orientation, in each of the     *)
(* four directions; a move with moved = false has scoreIncrease 0.         *)
(***************************************************************************)
C5_MovedIffDiffers ==
  Applied =>
    /\ res.moved <=> (\E c \in Cells : res.newBoard[c[1]][c[2]] # grid[c[1]][c[2]])
    /\ ~res.moved => res.scoreIncrease = 0

\* Up on a grid with tiles that has nothing to slide or merge upwards.
C5_Witness ==
  /\ phase = "moved" /\ dir = "up" /\ ~res.moved
  /\ grid[1] = <<2, 4, 2, 4>> /\ \E c \in Cells : grid[c[1]][c[2]] = 0

(***************************************************************************)
(* C6.  isGameOver returns true exactly when none of the four moves        *)
(* changes the grid: it returns false whenever some direction reports      *)
(* moved = true, and on every grid where it returns true each move reports *)
(* moved = false with scoreIncrease 0.                                     *)
(***************************************************************************)
C6_OverIffNoMove ==
  /\ phase # "input" =>
       (over <=> \A d \in Directions : ~applyMove(d, grid, FALSE).moved)
  /\ (Applied /\ over) => (~res.moved /\ res.scoreIncrease = 0)

\* A terminal grid on which a move has been tried.
C6_Witness ==
  /\ phase = "moved" /\ over /\ ~res.moved /\ dir = "left"

(***************************************************************************)
(* C7.  isGameOver returns false if some cell is 0 or some cell equals an  *)
(* orthogonally adjacent cell, and true in every other case; cells that    *)
(* touch only diagonally do not count.                                     *)
(***************************************************************************)
C7_IsGameOverContract ==
  phase # "input" =>
    (over <=>
       ~ \/ \E c \in Cells : grid[c[1]][c[2]] = 0
         \/ \E c1 \in Cells : \E c2 \in Cells :
              Orthogonal(c1, c2) /\ grid[c1[1]][c1[2]] = grid[c2[1]][c2[2]])

\* A full grid with equal diagonal neighbours reported as terminal.
C7_Witness ==
  /\ phase = "checked" /\ over
  /\ grid[1][1] = grid[2][2] /\ grid[4][4] = 8

(***************************************************************************)
(* Vocabulary of the session properties.                                   *)
(***************************************************************************)
\* The last input was a directional input.
MoveInput == last.op = "move"

\* Board, score, best score, stored item and the three flags are what the
\* last directional input found.
SessionAsFound == Snapshot = last.prev

\* The cells in which two boards differ.
DiffCells(b1, b2) == {c \in Cells : b1[c[1]][c[2]] # b2[c[1]][c[2]]}

(***************************************************************************)
(* C8.  A directional input whose move reports moved = false is a no-op:   *)
(* no tile is spawned, and board, score, best score, stored best score,    *)
(* won, gameOver and isPlaying are unchanged.                              *)
(***************************************************************************)
C8_UnchangedMoveIsNoOp ==
  (MoveInput /\ last.ran /\ ~last.res.moved) => SessionAsFound

\* A running session handled a direction in which nothing can move.
C8_Witness ==
  /\ MoveInput /\ last.ran /\ ~last.res.moved
  /\ isPlaying /\ ~gameOver /\ last.res.newBoard = board /\ board # ZeroBoard

(***************************************************************************)
(* C9.  After an accepted directional input the board is the grid the move *)
(* returned except for exactly one cell, which was empty in that grid and  *)
(* now holds 2 or 4, and the score has grown by the move's scoreIncrease.  *)
(***************************************************************************)
C9_AcceptedMoveSpawnsOne ==
  (MoveInput /\ last.ran /\ last.res.moved) =>
    /\ \E c \in Cells :
         /\ DiffCells(board, last.res.newBoard) = {c}
         /\ last.res.newBoard[c[1]][c[2]] = 0
         /\ board[c[1]][c[2]] \in {2, 4}
    /\ score = last.prev.score + last.res.scoreIncrease

\* An accepted move that merged, followed by its spawn.
C9_Witness ==
  /\ MoveInput /\ last.ran /\ last.res.moved /\ last.res.scoreIncrease > 0
  /\ Cardinality(DiffCells(board, last.res.newBoard)) = 1
  /\ board # last.prev.board

(***************************************************************************)
(* C10.  A directional input delivered while the game is paused or after   *)
(* it is lost changes nothing: the move is not computed, and board, score, *)
(* best score, won, gameOver and isPlaying stay as they were; after a loss *)
(* this holds for every directional input.                                 *)
(***************************************************************************)
C10_PausedOrLostMoveIsNoOp ==
  (MoveInput /\ (last.prev.gameOver \/ ~last.prev.isPlaying)) =>
    (~last.ran /\ SessionAsFound)

\* A lost session was given a directional input.
C10_Witness ==
  /\ MoveInput /\ last.prev.gameOver /\ gameOver /\ ~last.ran
  /\ isGameOver(board)

\* Some cell of b holds 2048 or more: a merge has reached the win threshold.
ReachedThreshold(b) == \E c \in Cells : b[c[1]][c[2]] >= 2048

(***************************************************************************)
(* C11 as stated: within one session the won flag goes from false to true  *)
(* at most once, the first time a cell reaches 2048; a step that raises    *)
(* won therefore starts from a board on which no cell has reached 2048     *)
(* yet, also after "Keep going".                                           *)
(***************************************************************************)
C11_WonRaisedOnce ==
  [][(~won /\ won') => ~ReachedThreshold(board)]_vars

\* The values the merges of a zero-free line create, scanning from its
\* leading edge.
RECURSIVE Doubles(_)
Doubles(d) ==
  IF Len(d) < 2 THEN {}
  ELSE IF d[1] = d[2] THEN {2 * d[1]} \cup Doubles(Tail(Tail(d)))
       ELSE Doubles(Tail(d))

\* The move of direction d on board b creates a tile of value 2048.
Creates2048(b, d) ==
  \E k \in Idx : 2048 \in Doubles(filterNonZero(lineOf(b, d, k)))

\* The last directional input ran the move of direction d.
RanDirection(d) ==
  /\ MoveInput /\ last.ran
  /\ last.res = applyMove(d, last.prev.board, last.prev.won)

(***************************************************************************)
(* C12.  After an accepted move, in any direction, that creates a tile of  *)
(* value 2048, won is true.  won does not block: a directional input that  *)
(* finds won true, the game running and not lost is handled as it is with  *)
(* won false: the move is computed, and if it moved the board is its grid  *)
(* with one spawn, the score has grown by its scoreIncrease and gameOver   *)
(* tells whether the new board is terminal; if not, nothing changed.       *)
(***************************************************************************)
C12_WonSetAndNotBlocking ==
  /\ \A d \in Directions :
       (RanDirection(d) /\ last.res.moved /\ Creates2048(last.prev.board, d)) => won
  /\ (MoveInput /\ last.prev.won /\ last.prev.isPlaying /\ ~last.prev.gameOver) =>
       /\ last.ran
       /\ won
       /\ \E d \in Directions :
            LET r == applyMove(d, last.prev.board, FALSE)
            IN  /\ last.res.newBoard = r.newBoard
                /\ last.res.scoreIncrease = r.scoreIncrease
                /\ last.res.moved = r.moved
                /\ IF r.moved
                     THEN /\ board \in addRandomTile(r.newBoard)
                          /\ score = last.prev.score + r.scoreIncrease
                          /\ gameOver = isGameOver(board)
                     ELSE SessionAsFound

\* With won raised by the merge of the 1024 pair, which left two tiles of
\* 2048 on the board, a Down was accepted.
C12_Witness ==
  /\ RanDirection("down") /\ last.prev.won /\ last.res.moved
  /\ Cardinality({c \in Cells : last.prev.board[c[1]][c[2]] = 2048}) = 2
  /\ won /\ board # last.prev.board

\* The number a later session would read from the stored item (line 31).
StoredValue(item) == parseInt(getItemOrZero(item))

(***************************************************************************)
(* C13.  The stored best score changes only in a step whose new score is   *)
(* strictly greater than the current best score; the text written reads    *)
(* back as that new score; so the stored value, read as a number, never    *)
(* decreases, whatever the step (move, pause, "Keep going", restart).      *)
(***************************************************************************)
C13_StoredWrittenOnlyWhenBeaten ==
  [][stored' # stored =>
       /\ highScore # NaN /\ score' > highScore[1]
       /\ stored'.present /\ parseInt(stored'.text) = Num(score')
       /\ StoredValue(stored) # NaN => StoredValue(stored')[1] > StoredValue(stored)[1]]_vars

\* A move has replaced the stored "40" by a greater score.
C13_Witness ==
  /\ MoveInput /\ last.prev.stored = Item(<<"4", "0">>)
  /\ stored # last.prev.stored /\ StoredValue(stored) = Num(score) /\ score > 40

\* The stored item is present and does not start with a number.
Corrupt(item) == item.present /\ item.text # << >> /\ parseInt(item.text) = NaN

(***************************************************************************)
(* C14 as stated: a session that found a present but non-numeric stored    *)
(* best score has its best score initialised to 0, so an accepted move     *)
(* that leaves a positive score makes the best score that score and        *)
(* stores it.                                                              *)
(***************************************************************************)
C14_CorruptItemReadsAsZero ==
  /\ (last.op = "none" /\ Corrupt(stored)) => highScore # NaN
  /\ (MoveInput /\ last.ran /\ last.res.moved /\ Corrupt(last.prev.stored) /\ score > 0) =>
       (highScore = Num(score) /\ StoredValue(stored) = Num(score))

\* n is 2, 4, 8, ...
RECURSIVE IsPowerOfTwo(_)
IsPowerOfTwo(n) ==
  IF n < 2 THEN FALSE
  ELSE IF n = 2 THEN TRUE
  ELSE n % 2 = 0 /\ IsPowerOfTwo(n \div 2)

\* g is a GRID_SIZE x GRID_SIZE grid of empty cells and tiles.
WellFormed(g) ==
  /\ Len(g) = GRID_SIZE
  /\ \A i \in Idx :
       /\ Len(g[i]) = GRID_SIZE
       /\ \A j \in Idx : g[i][j] = 0 \/ IsPowerOfTwo(g[i][j])

\* r is the move result computed from grid g in direction d: slide, merge
\* and score line by line.
ComputedFrom(r, g, d) ==
  /\ \A k \in Idx : lineOf(r.newBoard, d, k) = RefLine(lineOf(g, d, k)).out
  /\ r.scoreIncrease = SumSeq(asSeq([k \in 1..GRID_SIZE |-> RefLine(lineOf(g, d, k)).gain]))

(***************************************************************************)
(* C15 as stated: a grid that violates the precondition (here: a cell that *)
(* holds a negative value or a value that is not a power of two) is        *)
(* rejected; the move functions do not return the move result computed     *)
(* from the malformed grid.                                                *)
(***************************************************************************)
C15_MalformedGridRejected ==
  (Applied /\ ~WellFormed(grid)) => ~ComputedFrom(res, grid, dir)

\* The arrays that make up the board at address b: its rows and itself.
ArraysOf(h, b) == {b} \cup {h[b][i] : i \in 1..Len(h[b])}

(***************************************************************************)
(* C16.  No move function modifies the grid passed to it: when moveLeft,   *)
(* moveRight, moveUp or moveDown has returned, the board passed holds,     *)
(* cell by cell, the grid it held before, and the board returned (which    *)
(* holds the result of the move) shares no array with it; the spawn of     *)
(* handleMove writes its tile into the returned board and leaves the board *)
(* passed, the session's board before the input, as it was.                *)
(***************************************************************************)
C16_InputGridNotMutated ==
  phase \in {"returned", "spawned"} =>
    /\ deref(mem.heap, mem.input) = grid
    /\ ArraysOf(mem.heap, mem.input) \cap ArraysOf(mem.heap, mem.output) = {}
    /\ phase = "returned" => deref(mem.heap, mem.output) = res.newBoard
    /\ phase = "spawned" => deref(mem.heap, mem.output) \in addRandomTile(res.newBoard)

\* Left has slid and merged a full row, and the spawn has written its tile.
C16_Witness ==
  /\ phase = "spawned" /\ dir = "left" /\ res.scoreIncrease > 0
  /\ grid = MidGameBoard
  /\ deref(mem.heap, mem.output) # res.newBoard
  /\ deref(mem.heap, mem.output) # grid

\* What the move function returns to its caller (line 109).
Returned(r) ==
  [newBoard |-> r.newBoard, scoreIncrease |-> r.scoreIncrease, moved |-> r.moved]

(***************************************************************************)
(* C17 as stated: computing a move has no side effect on the session: the  *)
(* call of moveLeft, moveRight, moveUp or moveDown changes no session      *)
(* variable, in particular it does not itself raise won, and its result    *)
(* is the one the grid and the direction determine, whatever won is.       *)
(***************************************************************************)
C17_MoveHasNoSideEffect ==
  (MoveInput /\ last.ran) =>
    /\ ~last.res.setWon
    /\ \E d \in Directions : \A w \in BOOLEAN :
         Returned(last.res) = Returned(applyMove(d, last.prev.board, w))

(***************************************************************************)
(* C18.  Right, Up and Down, implemented by reversing and transposing      *)
(* around moveLeft, return what the direct definition gives: every line,   *)
(* read from the leading edge of the direction (right to left, top to      *)
(* bottom, bottom to top), is slid and merged once from that edge, the     *)
(* scoreIncrease is the sum of the merged values, and moved tells whether  *)
(* the grid changed.                                                       *)
(***************************************************************************)
C18_DirectionsMatchDirect ==
  (Applied /\ dir \in {"right", "up", "down"}) =>
    /\ ComputedFrom(res, grid, dir)
    /\ res.moved <=> res.newBoard # grid

\* Right on a row [2,2,2,0] has given [0,0,2,4] and scored 4.
C18_Witness ==
  /\ phase = "moved" /\ dir = "right"
  /\ grid[1] = <<2, 2, 2, 0>> /\ res.newBoard[1] = <<0, 0, 2, 4>>
  /\ res.scoreIncrease = 4 /\ res.moved

\* The number of tiles of a line.
TileCount(line) == Len(filterNonZero(line))

\* The line, its empty cells dropped, holds two equal tiles side by side:
\* the move merges at least one pair of it.
HasMerge(line) ==
  LET d == filterNonZero(line)
  IN  \E j \in 1..(Len(d) - 1) : d[j] = d[j + 1]

(***************************************************************************)
(* C19.  For every grid and direction, no line holds more tiles after the  *)
(* move than before it, and a line holds strictly fewer exactly when a     *)
(* pair of that line merged.                                               *)
(***************************************************************************)
C19_TileCountNeverGrows ==
  Applied =>
    \A k \in Idx :
      LET in  == lineOf(grid, dir, k)
          out == lineOf(res.newBoard, dir, k)
      IN  /\ TileCount(out) <= TileCount(in)
          /\ TileCount(out) < TileCount(in) <=> HasMerge(in)

\* Left: row 1 went from four tiles to three, row 2 kept its four.
C19_Witness ==
  /\ phase = "moved" /\ dir = "left"
  /\ grid[1] = <<2, 2, 2, 4>> /\ TileCount(res.newBoard[1]) = 3
  /\ TileCount(grid[2]) = 4 /\ TileCount(res.newBoard[2]) = 4

(***************************************************************************)
(* C20.  In every state of the session, whatever inputs led to it          *)
(* (directional inputs, pause toggles, "Keep going", restarts), the board  *)
(* is a grid of GRID_SIZE = 4 rows of 4 cells, each cell 0 or a power of   *)
(* two that is at least 2.                                                 *)
(***************************************************************************)
C20_BoardWellFormed ==
  GRID_SIZE = 4 /\ WellFormed(board)

\* An accepted move has merged two 1024 tiles and a tile has been spawned.
C20_Witness ==
  /\ MoveInput /\ last.ran /\ last.res.moved
  /\ Cardinality({c \in Cells : board[c[1]][c[2]] = 2048})
       > Cardinality({c \in Cells : last.prev.board[c[1]][c[2]] = 2048})
  /\ board # last.res.newBoard

\* The cells of b that hold a tile.
TileCells(b) == {c \in Cells : b[c[1]][c[2]] # 0}

\* b holds exactly two tiles, in two distinct cells, each 2 or 4.
TwoStartTiles(b) ==
  /\ Cardinality(TileCells(b)) = 2
  /\ \A c \in TileCells(b) : b[c[1]][c[2]] \in {2, 4}
  /\ \A c \in Cells \ TileCells(b) : b[c[1]][c[2]] = 0

\* The session has just started: no input yet, nothing scored.
SessionStarted == last.op = "none" /\ score = 0

(***************************************************************************)
(* C21.  The grid created at session start holds exactly two nonzero       *)
(* cells, in two distinct positions, each 2 or 4; every other cell is 0.   *)
(***************************************************************************)
C21_StartBoardHasTwoTiles ==
  SessionStarted => TwoStartTiles(board)

\* A session that started with a 2 and a 4 in the first row.
C21_Witness ==
  /\ SessionStarted
  /\ board[1] = <<2, 0, 0, 4>> /\ Cardinality(TileCells(board)) = 2

\* The states from which the restart is explored (the bound of HandleRestart).
RestartExplored == left > 0 /\ left >= MaxMoves - 1

(***************************************************************************)
(* C22.  Restart is accepted in every state, running or paused, won or     *)
(* lost, and yields a fresh session: a new board of exactly two tiles of   *)
(* value 2 or 4, score 0, gameOver = false, won = false, isPlaying = true; *)
(* the best score and the stored best score are left as they were.         *)
(***************************************************************************)
C22_RestartYieldsFreshSession ==
  /\ [](RestartExplored => ENABLED (HandleRestart /\ UNCHANGED harness))
  /\ [][last'.op = "restart" =>
          /\ TwoStartTiles(board')
          /\ score' = 0 /\ ~gameOver' /\ ~won' /\ isPlaying'
          /\ highScore' = highScore /\ stored' = stored]_vars

\* A restart after the 2048 merge: fresh board, the best score kept.
C22_Witness ==
  /\ last.op = "restart"
  /\ TwoStartTiles(board) /\ score = 0 /\ ~gameOver /\ ~won /\ isPlaying
  /\ highScore = Num(38532) /\ StoredValue(stored) = Num(38532)

\* b is full and no two orthogonally adjacent cells hold the same value.
Terminal(b) ==
  \A i \in Idx : \A j \in Idx :
    /\ b[i][j] # 0
    /\ j < GRID_SIZE => b[i][j] # b[i][j + 1]
    /\ i < GRID_SIZE => b[i][j] # b[i + 1][j]

(***************************************************************************)
(* C24.  In every state of the session gameOver is true exactly when the   *)
(* board is terminal (full, no two orthogonally adjacent equal cells): the *)
(* accepted move and spawn that make the board terminal raise the flag in  *)
(* the same step; and a session that is running and not lost has at least *)
(* one direction whose move changes the board.                             *)
(***************************************************************************)
C24_GameOverIffTerminal ==
  /\ gameOver <=> Terminal(board)
  /\ (isPlaying /\ ~gameOver) =>
       \E d \in Directions : applyMove(d, board, won).moved

\* The accepted move whose spawn filled the last cell of a terminal board.
C24_Witness ==
  /\ MoveInput /\ last.ran /\ last.res.moved /\ ~last.prev.gameOver
  /\ gameOver /\ Terminal(board)
  /\ \A d \in Directions : ~applyMove(d, board, won).moved

(***************************************************************************)
(* C25.  In every state of the session gameOver implies that isPlaying is  *)
(* false.  The pause toggle is ignored while the game is lost: a step from *)
(* a lost state that is not a restart leaves the session lost and not      *)
(* running, so only a restart clears gameOver.                             *)
(***************************************************************************)
C25_LostMeansNotRunning ==
  /\ [](gameOver => ~isPlaying)
  /\ [][(gameOver /\ last'.op # "restart") => (gameOver' /\ ~isPlaying')]_vars

\* The pause toggle was used on a lost session and changed nothing.
C25_Witness ==
  /\ last.op = "toggle" /\ gameOver /\ ~isPlaying /\ Terminal(board)

(***************************************************************************)
(* C26.  Whenever a move, in any direction, reports moved = true, the grid *)
(* it returns has at least one empty cell, so the addRandomTile that       *)
(* follows an accepted move always finds a cell for its tile.              *)
(***************************************************************************)
C26_MovedLeavesEmptyCell ==
  /\ (Applied /\ res.moved) =>
       /\ emptyCells(res.newBoard) # << >>
       /\ \A g \in addRandomTile(res.newBoard) : g # res.newBoard
  /\ (phase = "again" /\ again.moved) => emptyCells(again.newBoard) # << >>

\* A full grid whose only possible move merged one pair: one cell is free.
C26_Witness ==
  /\ phase = "moved" /\ res.moved
  /\ TileCells(grid) = Cells
  /\ Len(emptyCells(res.newBoard)) = 1

(***************************************************************************)
(* C27.  The slide-and-merge step of a directional input leaves the sum of *)
(* the tile values unchanged, whatever its scoreIncrease; so across an     *)
(* accepted input the sum of the session's board grows by exactly the      *)
(* spawned tile, 2 or 4, and across a rejected input it does not change.   *)
(***************************************************************************)
C27_BoardSumGrowsBySpawn ==
  MoveInput =>
    IF last.ran /\ last.res.moved
      THEN /\ SumBoard(last.res.newBoard) = SumBoard(last.prev.board)
           /\ SumBoard(board) - SumBoard(last.prev.board) \in {2, 4}
      ELSE SumBoard(board) = SumBoard(last.prev.board)

\* An accepted move that scored 2048 and whose board sum grew by 4.
C27_Witness ==
  /\ MoveInput /\ last.ran /\ last.res.moved /\ last.res.scoreIncrease = 2048
  /\ SumBoard(board) = SumBoard(last.prev.board) + 4

(***************************************************************************)
(* C28.  When the stored best score is a non-negative number, the best     *)
(* score is at least the score in every state of the session, and the      *)
(* stored value, once the session has written it, reads as the best score  *)
(* held in memory.                                                         *)
(***************************************************************************)
C28_BestScoreAtLeastScore ==
  (StoredValue(stored) # NaN /\ StoredValue(stored)[1] >= 0) =>
    /\ highScore # NaN
    /\ highScore[1] >= score
    /\ StoredValue(stored) = highScore

\* After a restart the best score written during the game is still held.
C28_Witness ==
  /\ last.op = "restart" /\ score = 0
  /\ highScore = Num(20) /\ stored = Item(<<"2", "0">>)

(***************************************************************************)
(* C29.  A swipe whose horizontal and vertical displacements are both      *)
(* below 30 in absolute value calls handleMove not at all; any other swipe *)
(* calls it exactly once, with the direction of the axis of larger         *)
(* absolute displacement and of its sign (dx > 0 right, dx < 0 left,       *)
(* dy > 0 down, dy < 0 up), a tie |dx| = |dy| counting as vertical.        *)
(***************************************************************************)
\* The state after the touchend of a swipe: the finger went down at
\* swipe.start and was lifted at swipe.touches[1].
Swiped == swipe.op = "touchend" /\ swipe.start # NoTouch /\ swipe.touches # << >>

SwipeDx == swipe.touches[1][1] - swipe.start[1]

SwipeDy == swipe.touches[1][2] - swipe.start[2]

C29_SwipeSelectsDirection ==
  Swiped =>
    LET ax == IF SwipeDx < 0 THEN 0 - SwipeDx ELSE SwipeDx
        ay == IF SwipeDy < 0 THEN 0 - SwipeDy ELSE SwipeDy
    IN  /\ (ax < 30 /\ ay < 30) => swipe.calls = << >>
        /\ (ax >= 30 \/ ay >= 30) =>
             /\ Len(swipe.calls) = 1
             /\ (ax > ay /\ SwipeDx > 0) => swipe.calls[1] = "right"
             /\ (ax > ay /\ SwipeDx < 0) => swipe.calls[1] = "left"
             /\ (ax <= ay /\ SwipeDy > 0) => swipe.calls[1] = "down"
             /\ (ax <= ay /\ SwipeDy < 0) => swipe.calls[1] = "up"

(***************************************************************************)
(* C30.  In the Snake game, after every tick in which the snake eats and   *)
(* after every restart, the food is on no segment of the snake as it       *)
(* stands after that step, the new head included, unless no cell of the    *)
(* grid is empty.                                                          *)
(***************************************************************************)
FoodPlaced == snakeLast.op = "reset" \/ (snakeLast.op = "render" /\ snakeLast.ate)

GridFull == \A x \in 0..(GRID_COLS - 1), y \in 0..(GRID_ROWS - 1) :
              onSnake(snakeGame.snake, Pos(x, y))

C30_FoodOnEmptyCell ==
  FoodPlaced => (GridFull \/ ~onSnake(snakeGame.snake, snakeGame.food))

====
